---- MODULE Spec2Model ----
(***************************************************************************)
(* Model of the schema-driven JSON <-> field-element codec of scarb-agent  *)
(* (crate cairo-io-serde).                                                 *)
(*                                                                         *)
(* Representation choices                                                  *)
(*  - A byte string (Rust &str / String) is the sequence of its UTF-8      *)
(*    bytes, each in 0..255.                                               *)
(*  - An unbounded natural number is a big-endian sequence of bytes with   *)
(*    no leading zero byte (zero is the empty sequence).  TLC's integers   *)
(*    are 32 bits wide, the program's are 64 and 252 bits wide, so every   *)
(*    program integer is kept in this form.                                *)
(*  - A Felt252 is such a natural number below PRIME.                      *)
(*  - A serde_json::Value is a tagged record; an Object keeps its entries  *)
(*    as a sequence of key/value pairs with distinct keys.                 *)
(***************************************************************************)
EXTENDS Integers, Sequences, FiniteSets, TLC

(***************************************************************************)
(* Natural numbers as big-endian byte sequences                            *)
(***************************************************************************)

\* strip leading zero bytes
Norm(b) ==
    IF \A i \in 1..Len(b) : b[i] = 0 THEN <<>>
    ELSE SubSeq(b, CHOOSE i \in 1..Len(b) : b[i] # 0 /\ \A j \in 1..(i - 1) : b[j] = 0, Len(b))

RECURSIVE IntToBytes(_)
\* the byte form of a small non-negative integer
IntToBytes(n) == IF n = 0 THEN <<>>
                 ELSE Append(IntToBytes(n \div 256), n % 256)

RECURSIVE BytesToInt(_)
\* the integer of a byte form of at most three bytes
BytesToInt(b) == IF b = <<>> THEN 0
                 ELSE BytesToInt(SubSeq(b, 1, Len(b) - 1)) * 256 + b[Len(b)]

Zeros(n) == [i \in 1..n |-> 0]

\* left-pad with zero bytes to length n
PadTo(b, n) == Zeros(n - Len(b)) \o b

\* lexicographic order of two byte sequences of equal length
SeqLess(a, b) == \E i \in 1..Len(a) : a[i] < b[i] /\ \A j \in 1..(i - 1) : a[j] = b[j]

\* a < b for normalised byte forms
BigLess(a, b) == IF Len(a) # Len(b) THEN Len(a) < Len(b) ELSE SeqLess(a, b)

\* a - b for equal-length sequences with a >= b, unnormalised: byte i borrows
\* when the less significant bytes of a are below those of b
SubAligned(a, b) ==
    LET n == Len(a)
        borrow(i) == IF SeqLess(SubSeq(a, i + 1, n), SubSeq(b, i + 1, n)) THEN 1 ELSE 0
    IN  [i \in 1..n |-> (a[i] - b[i] - borrow(i)) % 256]

\* a - b for normalised byte forms with a >= b
BigSub(a, b) == Norm(SubAligned(a, PadTo(b, Len(a))))

RECURSIVE MulAddAligned(_, _, _)
\* b * k + c, k and c small
MulAddAligned(b, k, c) ==
    IF b = <<>> THEN IntToBytes(c)
    ELSE LET n == Len(b)
             v == b[n] * k + c
         IN  Append(MulAddAligned(SubSeq(b, 1, n - 1), k, v \div 256), v % 256)

BigMulAdd(b, k, c) == Norm(MulAddAligned(b, k, c))

RECURSIVE Pow2(_)
Pow2(k) == IF k = 0 THEN 1 ELSE 2 * Pow2(k - 1)

\* b * 2^k
ShiftLeft(b, k) == IF b = <<>> THEN <<>>
                   ELSE BigMulAdd(b, Pow2(k % 8), 0) \o Zeros(k \div 8)

RECURSIVE DivSmall(_, _, _)
\* floor(b / d) for a small d, carry in from the more significant bytes
DivSmall(b, d, carry) ==
    IF b = <<>> THEN <<>>
    ELSE LET v == carry * 256 + Head(b)
         IN  <<v \div d>> \o DivSmall(Tail(b), d, v % d)

\* floor(b / 2^k)
ShiftRight(b, k) ==
    IF k \div 8 >= Len(b) THEN <<>>
    ELSE Norm(DivSmall(SubSeq(b, 1, Len(b) - (k \div 8)), Pow2(k % 8), 0))

(***************************************************************************)
(* Felt252: the field of integers modulo PRIME = 2^251 + 17 * 2^192 + 1    *)
(***************************************************************************)

PRIME == <<8, 0, 0, 0, 0, 0, 0, 17>> \o Zeros(23) \o <<1>>

\* q * PRIME for q in 0..31: no carry leaves the bytes written here
MulPrime(q) == <<8 * q, 0, 0, 0, 0, 0, (17 * q) \div 256, (17 * q) % 256>> \o Zeros(23) \o <<q>>

\* the canonical representative of a natural number below 2^256: a number of
\* less than 32 bytes is below PRIME, a number b of 32 bytes is b - q * PRIME
\* for the quotient q, which is b[1] \div 8 or one less
FeltReduce(b) ==
    IF Len(b) < 32 THEN b
    ELSE LET q0 == b[1] \div 8
             q  == IF BigLess(b, Norm(MulPrime(q0))) THEN q0 - 1 ELSE q0
         IN  BigSub(b, Norm(MulPrime(q)))

\* field negation
FeltNeg(f) == IF f = <<>> THEN <<>> ELSE BigSub(PRIME, f)

\* 2^63 and i64::MAX = 2^63 - 1
TWO63 == <<128>> \o Zeros(7)

I64_MAX == <<127, 255, 255, 255, 255, 255, 255, 255>>

\* Felt252::from(u64)
FeltFromU64(mag) == mag

\* a variant of Felt252::from(i64) that keeps the magnitude only
FeltFromI64_magnitude(n) == n.mag

\* Felt252::from(i64): a negative n is PRIME - |n|
FeltFromI64(n) == IF n.neg THEN FeltNeg(n.mag) ELSE n.mag

\* Felt252::from(usize)
FeltFromUsize(n) == IntToBytes(n)

\* Felt::from_bytes_be_slice on at most 31 bytes
FeltFromBytesBE(bytes) == FeltReduce(Norm(bytes))

(***************************************************************************)
(* Results and options                                                     *)
(***************************************************************************)

Ok(v) == [ok |-> TRUE, val |-> v]

Err(e) == [ok |-> FALSE, err |-> e]

Some(v) == [some |-> TRUE, v |-> v]

None == [some |-> FALSE]

(***************************************************************************)
(* Strings: char predicates, hex and decimal parsing                       *)
(***************************************************************************)

\* char::is_digit(10): '0'..'9'
is_digit(c) == c \in 48..57

\* the value of a hex digit, -1 for any other char
HexVal(c) == IF c \in 48..57 THEN c - 48
             ELSE IF c \in 97..102 THEN c - 87
             ELSE IF c \in 65..70 THEN c - 55
             ELSE -1

HexChar(n) == IF n < 10 THEN 48 + n ELSE 87 + n

\* hex::encode: two lower-case hex digits per byte
hex_encode(bytes) ==
    [i \in 1..(2 * Len(bytes)) |->
        IF i % 2 = 1 THEN HexChar(bytes[(i + 1) \div 2] \div 16)
        ELSE HexChar(bytes[i \div 2] % 16)]

\* str::starts_with("0x")
starts_with_0x(s) == Len(s) >= 2 /\ s[1] = 48 /\ s[2] = 120

\* is_valid_number: every char is a digit, or is '-' in first position
is_valid_number(s) == \A i \in 1..Len(s) : is_digit(s[i]) \/ (i = 1 /\ s[i] = 45)

RECURSIVE DecDigits(_, _)
\* UnsignedInteger::from_dec_str on a non-empty string: res = res * 10 + digit,
\* failing on a non-digit and on overflow of 256 bits
DecDigits(s, res) ==
    IF s = <<>> THEN Ok(res)
    ELSE IF ~is_digit(Head(s)) THEN Err([msg |-> "FromStrError"])
    ELSE LET r == BigMulAdd(res, 10, Head(s) - 48)
         IN  IF Len(r) > 32 THEN Err([msg |-> "FromStrError"])
             ELSE DecDigits(Tail(s), r)

\* Felt::from_dec_str: an optional leading '-', then at least one digit
from_dec_str(s) ==
    LET neg    == s # <<>> /\ Head(s) = 45
        digits == IF neg THEN Tail(s) ELSE s
        parsed == IF digits = <<>> THEN Err([msg |-> "FromStrError"])
                  ELSE DecDigits(digits, <<>>)
    IN  IF ~parsed.ok THEN parsed
        ELSE IF neg THEN Ok(FeltNeg(FeltReduce(parsed.val)))
        ELSE Ok(FeltReduce(parsed.val))

\* the number written by a string of hex digits: two digits per byte
HexDigits(s) ==
    LET d == IF Len(s) % 2 = 1 THEN <<48>> \o s ELSE s
    IN  Norm([i \in 1..(Len(d) \div 2) |-> 16 * HexVal(d[2 * i - 1]) + HexVal(d[2 * i])])

\* Felt::from_hex: the prefix is dropped when digits follow it; an empty string,
\* a char that is no hex digit and more than 64 digits are errors
from_hex(s) ==
    LET digits == IF Len(s) > 2 /\ starts_with_0x(s) THEN SubSeq(s, 3, Len(s)) ELSE s
    IN  IF digits = <<>> THEN Err([msg |-> "FromStrError"])
        ELSE IF \E i \in 1..Len(digits) : HexVal(digits[i]) < 0
             THEN Err([msg |-> "FromStrError"])
        ELSE IF Len(digits) > 64 THEN Err([msg |-> "FromStrError"])
        ELSE Ok(FeltReduce(HexDigits(digits)))

\* Felt252::from_str: hex when prefixed by 0x, decimal otherwise
Felt252_from_str(s) == IF starts_with_0x(s) THEN from_hex(s) ELSE from_dec_str(s)

(***************************************************************************)
(* serde_json::Value                                                       *)
(*   Number is PosInt(u64) | NegInt(i64 < 0) | Float(f64); an integer      *)
(*   keeps its magnitude as a byte form, a float is (-1)^neg * mag * 2^e.  *)
(***************************************************************************)

JNull == [t |-> "Null"]

JBool(b) == [t |-> "Bool", b |-> b]

JPosInt(mag) == [t |-> "Number", n |-> "PosInt", mag |-> mag]

JNegInt(mag) == [t |-> "Number", n |-> "NegInt", mag |-> mag]

JFloat(neg, mag, e) == [t |-> "Number", n |-> "Float", neg |-> neg, mag |-> mag, e |-> e]

JString(s) == [t |-> "String", s |-> s]

JArray(a) == [t |-> "Array", a |-> a]

JObject(kv) == [t |-> "Object", kv |-> kv]

KV(k, v) == [k |-> k, v |-> v]

\* a variant of Value::get that finds a key only in an object with a single entry
get_sole_entry(value, key) ==
    IF value.t # "Object" THEN None
    ELSE IF Len(value.kv) = 1 /\ value.kv[1].k = key THEN Some(value.kv[1].v)
    ELSE None

\* Value::get(&String): the entry of an object with that key, None otherwise
get(value, key) ==
    IF value.t # "Object" THEN None
    ELSE IF \E i \in 1..Len(value.kv) : value.kv[i].k = key
         THEN Some(value.kv[CHOOSE i \in 1..Len(value.kv) : value.kv[i].k = key].v)
    ELSE None

\* json.as_object().map_or(false, |obj| obj.is_empty())
is_empty_object(json) == json.t = "Object" /\ json.kv = <<>>

\* Value::as_u64: a PosInt only
as_u64(value) ==
    IF value.t = "Number" /\ value.n = "PosInt" THEN Some(value.mag) ELSE None

\* Value::as_i64: a NegInt, or a PosInt up to i64::MAX
as_i64(value) ==
    IF value.t = "Number" /\ value.n = "NegInt"
        THEN Some([neg |-> TRUE, mag |-> value.mag])
    ELSE IF value.t = "Number" /\ value.n = "PosInt" /\ BigLess(value.mag, TWO63)
        THEN Some([neg |-> FALSE, mag |-> value.mag])
    ELSE None

\* Value::as_f64: every Number, an integer converted to f64 (the rounding of a
\* magnitude above 2^53 is not kept: the encoder saturates from 2^31 on)
as_f64(value) ==
    IF value.t # "Number" THEN None
    ELSE IF value.n = "Float"
        THEN Some([neg |-> value.neg, mag |-> value.mag, e |-> value.e])
    ELSE Some([neg |-> value.n = "NegInt", mag |-> value.mag, e |-> 0])

as_str(value) == IF value.t = "String" THEN Some(value.s) ELSE None

as_bool(value) == IF value.t = "Bool" THEN Some(value.b) ELSE None

as_array(value) == IF value.t = "Array" THEN Some(value.a) ELSE None

(***************************************************************************)
(* f64 arithmetic of the fixed-point conversion                            *)
(***************************************************************************)

\* the number of fractional bits: 2.0_f64.powi(32)
FRAC_BITS == 32

\* num * 2.0_f64.powi(k), exact for a power of two
f64_mul_pow2(num, k) == [num EXCEPT !.e = @ + k]

\* a variant that rounds |x| to the nearest integer, halves upward
f64_round_mag(x) ==
    IF x.e >= 0 THEN ShiftLeft(x.mag, x.e)
    ELSE ShiftRight(BigMulAdd(x.mag, 1, Pow2(0 - x.e - 1)), 0 - x.e)

\* the integer part of |x|
f64_trunc_mag(x) == IF x.e >= 0 THEN ShiftLeft(x.mag, x.e) ELSE ShiftRight(x.mag, 0 - x.e)

\* `x as i64`: rounds toward zero and saturates at i64::MIN and i64::MAX
f64_as_i64(x) ==
    LET t == f64_trunc_mag(x)
    IN  IF BigLess(t, TWO63) THEN [neg |-> x.neg /\ t # <<>>, mag |-> t]
        ELSE IF x.neg THEN [neg |-> TRUE, mag |-> TWO63]
        ELSE [neg |-> FALSE, mag |-> I64_MAX]

(***************************************************************************)
(* cainome ByteArray                                                       *)
(***************************************************************************)

\* bytes per full word
MAX_WORD_LEN == 31

RECURSIVE chunks(_, _)
\* slice::chunks(n): consecutive chunks of n elements, the last one shorter
chunks(bytes, n) ==
    IF bytes = <<>> THEN <<>>
    ELSE IF Len(bytes) <= n THEN <<bytes>>
    ELSE <<SubSeq(bytes, 1, n)>> \o chunks(SubSeq(bytes, n + 1, Len(bytes)), n)

\* a variant of ByteArray::from_string that always keeps the last chunk pending
ByteArray_from_string_last_pending(string) ==
    LET cs        == chunks(string, MAX_WORD_LEN)
        remainder == cs # <<>>
        full      == IF remainder THEN SubSeq(cs, 1, Len(cs) - 1) ELSE cs
    IN  Ok([data             |-> [i \in 1..Len(full) |-> FeltFromBytesBE(full[i])],
            pending_word     |-> IF remainder THEN FeltFromBytesBE(cs[Len(cs)]) ELSE <<>>,
            pending_word_len |-> IF remainder THEN Len(cs[Len(cs)]) ELSE 0])

\* ByteArray::from_string: the full chunks become data words, a shorter last
\* chunk becomes the pending word
ByteArray_from_string(string) ==
    LET cs        == chunks(string, MAX_WORD_LEN)
        remainder == Len(string) % MAX_WORD_LEN # 0
        full      == IF remainder THEN SubSeq(cs, 1, Len(cs) - 1) ELSE cs
    IN  Ok([data             |-> [i \in 1..Len(full) |-> FeltFromBytesBE(full[i])],
            pending_word     |-> IF remainder THEN FeltFromBytesBE(cs[Len(cs)]) ELSE <<>>,
            pending_word_len |-> IF remainder THEN Len(cs[Len(cs)]) ELSE 0])

(***************************************************************************)
(* Schema model                                                            *)
(***************************************************************************)

Primitive(name) == [type |-> "Primitive", name |-> name]

ArrayOf(item_type) == [type |-> "Array", item_type |-> item_type]

SpanOf(item_type) == [type |-> "Span", item_type |-> item_type]

StructRef(name) == [type |-> "Struct", name |-> name]

\* NamedSchemaType
Field(name, ty) == [name |-> name, ty |-> ty]

\* SchemaDef
SchemaDef(fields) == [fields |-> fields]

\* Schema: schemas is the HashMap from record name to SchemaDef
Schema(schemas, cairo_input, cairo_output) ==
    [schemas |-> schemas, cairo_input |-> cairo_input, cairo_output |-> cairo_output]

\* FuncArg::Array and FuncArg::Single
FuncArgArray(vals) == [kind |-> "Array", vals |-> vals]

FuncArgSingle(val) == [kind |-> "Single", val |-> val]

(***************************************************************************)
(* Encoder: cairo_input.rs                                                 *)
(***************************************************************************)

UNSIGNED_NAMES == {"u64", "u32", "u16", "u8"}

SIGNED_NAMES == {"i64", "i32", "i16", "i8"}

\* parse_byte_array: [word count, words, pending word, pending word length]
parse_byte_array(string) ==
    LET byte_array == ByteArray_from_string(string)
    IN  IF ~byte_array.ok THEN Err([msg |-> "Error parsing ByteArray"])
        ELSE Ok(<<FeltFromUsize(Len(byte_array.val.data))>>
                \o byte_array.val.data
                \o <<byte_array.val.pending_word>>
                \o <<FeltFromU64(IntToBytes(byte_array.val.pending_word_len))>>)

\* a variant of the unsigned branch that checks the value against the width of u8
parse_unsigned_width_checked(value, name) ==
    LET num == as_u64(value)
    IN  IF ~num.some THEN Err([msg |-> "Expected unsigned integer for", name |-> name])
        ELSE IF name = "u8" /\ ~BigLess(num.v, <<1, 0>>)
            THEN Err([msg |-> "Expected unsigned integer for", name |-> name])
        ELSE Ok(<<FeltFromU64(num.v)>>)

\* parse_value, "u64" | "u32" | "u16" | "u8"
parse_unsigned(value, name) ==
    LET num == as_u64(value)
    IN  IF ~num.some THEN Err([msg |-> "Expected unsigned integer for", name |-> name])
        ELSE Ok(<<FeltFromU64(num.v)>>)

\* parse_value, "i64" | "i32" | "i16" | "i8"
parse_signed(value, name) ==
    LET num == as_i64(value)
    IN  IF ~num.some THEN Err([msg |-> "Expected signed integer for", name |-> name])
        ELSE Ok(<<FeltFromI64(num.v)>>)

\* parse_value, "F64"
parse_F64(value, name) ==
    LET num == as_f64(value)
    IN  IF ~num.some THEN Err([msg |-> "Expected float for", name |-> name])
        ELSE Ok(<<FeltFromI64(f64_as_i64(f64_mul_pow2(num.v, FRAC_BITS)))>>)

\* parse_value, "felt252"
parse_felt252(value) ==
    LET string == as_str(value)
    IN  IF ~string.some THEN Err([msg |-> "Expected a string"])
        ELSE LET felt == IF is_valid_number(string.v) \/ starts_with_0x(string.v)
                         THEN Felt252_from_str(string.v)
                         ELSE Felt252_from_str(<<48, 120>> \o hex_encode(string.v))
             IN  IF ~felt.ok THEN felt ELSE Ok(<<felt.val>>)

\* parse_value, "ByteArray"
parse_ByteArray(value) ==
    LET string == as_str(value)
    IN  IF ~string.some THEN Err([msg |-> "Expected string for ByteArray"])
        ELSE parse_byte_array(string.v)

\* parse_value, "bool"
parse_bool(value) ==
    LET bool_value == as_bool(value)
    IN  IF ~bool_value.some THEN Err([msg |-> "Expected boolean value"])
        ELSE Ok(<<FeltFromU64(IntToBytes(IF bool_value.v THEN 1 ELSE 0))>>)

\* a variant of the primitive dispatch that reads an unknown name as felt252
parse_primitive_default_felt(value, name) ==
    IF name \in UNSIGNED_NAMES THEN parse_unsigned(value, name)
    ELSE IF name \in SIGNED_NAMES THEN parse_signed(value, name)
    ELSE IF name = "F64" THEN parse_F64(value, name)
    ELSE IF name = "ByteArray" THEN parse_ByteArray(value)
    ELSE IF name = "bool" THEN parse_bool(value)
    ELSE parse_felt252(value)

\* parse_value, SchemaType::Primitive
parse_primitive(value, name) ==
    IF name \in UNSIGNED_NAMES THEN parse_unsigned(value, name)
    ELSE IF name \in SIGNED_NAMES THEN parse_signed(value, name)
    ELSE IF name = "F64" THEN parse_F64(value, name)
    ELSE IF name = "felt252" THEN parse_felt252(value)
    ELSE IF name = "ByteArray" THEN parse_ByteArray(value)
    ELSE IF name = "bool" THEN parse_bool(value)
    ELSE Err([msg |-> "Unknown primitive type", name |-> name])

RECURSIVE parse_schema(_, _, _)
RECURSIVE parse_value(_, _, _)
RECURSIVE parse_fields(_, _, _, _, _)
RECURSIVE parse_items(_, _, _, _)

\* parse_value, Array | Span: the loop over the items, result the vector so far
parse_items(array, item_type, schema, result) ==
    IF array = <<>> THEN Ok(result)
    ELSE LET parsed == parse_value(Head(array), item_type, schema)
         IN  IF ~parsed.ok THEN parsed
             ELSE parse_items(Tail(array), item_type, schema, result \o parsed.val)

\* a variant of the array encoder that resolves a Struct item type before the items
parse_array_resolves_item(value, item_type, schema) ==
    LET array == as_array(value)
    IN  IF item_type.type = "Struct" /\ item_type.name \notin DOMAIN schema.schemas
            THEN Err([msg |-> "Schema not found", name |-> item_type.name])
        ELSE IF ~array.some THEN Err([msg |-> "Expected array"])
        ELSE parse_items(array.v, item_type, schema, <<FeltFromUsize(Len(array.v))>>)

\* a variant of the array encoder that counts the emitted field elements
parse_array_counts_felts(value, item_type, schema) ==
    LET array == as_array(value)
        items == IF array.some THEN parse_items(array.v, item_type, schema, <<>>)
                 ELSE Err([msg |-> "Expected array"])
    IN  IF ~items.ok THEN items
        ELSE Ok(<<FeltFromUsize(Len(items.val))>> \o items.val)

\* parse_value, Array | Span: the element count, then the items
parse_array(value, item_type, schema) ==
    LET array == as_array(value)
    IN  IF ~array.some THEN Err([msg |-> "Expected array"])
        ELSE parse_items(array.v, item_type, schema, <<FeltFromUsize(Len(array.v))>>)

parse_value(value, ty, schema) ==
    IF ty.type = "Primitive" THEN parse_primitive(value, ty.name)
    ELSE IF ty.type \in {"Array", "Span"} THEN parse_array(value, ty.item_type, schema)
    ELSE parse_schema(value, ty.name, schema)

\* a variant of the field loop that puts each field's encoding in front
parse_fields_prepend(value, fields, schema_name, schema, args) ==
    IF fields = <<>> THEN Ok(args)
    ELSE LET field       == Head(fields)
             field_value == get(value, field.name)
         IN  IF ~field_value.some
                 THEN Err([msg |-> "Missing field", field |-> field.name,
                           schema |-> schema_name, value |-> value])
             ELSE LET parsed == parse_value(field_value.v, field.ty, schema)
                  IN  IF ~parsed.ok THEN parsed
                      ELSE parse_fields(value, Tail(fields), schema_name, schema,
                                        parsed.val \o args)

\* a variant of the field loop whose error names the input root record
parse_fields_names_root(value, fields, schema_name, schema, args) ==
    IF fields = <<>> THEN Ok(args)
    ELSE LET field       == Head(fields)
             field_value == get(value, field.name)
         IN  IF ~field_value.some
                 THEN Err([msg |-> "Missing field", field |-> field.name,
                           schema |-> schema.cairo_input, value |-> value])
             ELSE LET parsed == parse_value(field_value.v, field.ty, schema)
                  IN  IF ~parsed.ok THEN parsed
                      ELSE parse_fields(value, Tail(fields), schema_name, schema,
                                        args \o parsed.val)

\* parse_schema: the loop over the remaining fields, args the vector so far
parse_fields(value, fields, schema_name, schema, args) ==
    IF fields = <<>> THEN Ok(args)
    ELSE LET field       == Head(fields)
             field_value == get(value, field.name)
         IN  IF ~field_value.some
                 THEN Err([msg |-> "Missing field", field |-> field.name,
                           schema |-> schema_name, value |-> value])
             ELSE LET parsed == parse_value(field_value.v, field.ty, schema)
                  IN  IF ~parsed.ok THEN parsed
                      ELSE parse_fields(value, Tail(fields), schema_name, schema,
                                        args \o parsed.val)

\* a variant of parse_schema that encodes an empty object as no elements
parse_schema_empty_exit(value, schema_name, schema) ==
    IF schema_name \notin DOMAIN schema.schemas
        THEN Err([msg |-> "Schema not found", name |-> schema_name])
    ELSE IF is_empty_object(value) THEN Ok(<<>>)
    ELSE parse_fields(value, schema.schemas[schema_name].fields, schema_name, schema, <<>>)

\* a variant of parse_schema whose error carries the elements encoded so far
parse_schema_partial(value, schema_name, schema) ==
    IF schema_name \notin DOMAIN schema.schemas
        THEN Err([msg |-> "Schema not found", name |-> schema_name])
    ELSE LET fields == schema.schemas[schema_name].fields
             good   == { n \in 0..Len(fields) :
                            parse_fields(value, SubSeq(fields, 1, n), schema_name, schema, <<>>).ok }
             n      == CHOOSE k \in good : \A j \in good : j <= k
             done   == parse_fields(value, fields, schema_name, schema, <<>>)
         IN  IF done.ok THEN done
             ELSE [ok |-> FALSE, err |-> done.err,
                   val |-> parse_fields(value, SubSeq(fields, 1, n), schema_name,
                                        schema, <<>>).val]

parse_schema(value, schema_name, schema) ==
    IF schema_name \notin DOMAIN schema.schemas
        THEN Err([msg |-> "Schema not found", name |-> schema_name])
    ELSE parse_fields(value, schema.schemas[schema_name].fields, schema_name, schema, <<>>)

\* serde_json::from_str: a text is either no JSON or the Value it denotes
serde_json_from_str(json_str) ==
    IF json_str.valid THEN Ok(json_str.value) ELSE Err([msg |-> "Failed to parse JSON"])

\* a variant of the early exit that tests for null instead of the empty object
empty_json_exit_null(json) == json.t = "Null"

\* the early exit of process_json_args
empty_json_exit(json) == is_empty_object(json)

process_json_args(json_str, schema) ==
    LET json == serde_json_from_str(json_str)
    IN  IF ~json.ok THEN json
        ELSE IF empty_json_exit(json.val) THEN Ok(<<>>)
        ELSE LET parsed == parse_schema(json.val, schema.cairo_input, schema)
             IN  IF ~parsed.ok THEN parsed
                 ELSE Ok(<<FuncArgArray(parsed.val)>>)

RECURSIVE parse_value_frames(_, _, _)
RECURSIVE parse_schema_frames(_, _, _)

\* the greatest of a set of naturals, 0 for the empty set
Max(S) == IF S = {} THEN 0 ELSE CHOOSE m \in S : \A n \in S : n <= m

\* a variant of the frame count that charges the call of parse_schema as well
parse_value_frames_with_schema(value, ty, schema) ==
    1 + (IF ty.type = "Primitive" THEN 0
         ELSE IF ty.type \in {"Array", "Span"}
             THEN IF ~as_array(value).some THEN 0
                  ELSE Max({ parse_value_frames(as_array(value).v[i], ty.item_type, schema) :
                               i \in 1..Len(as_array(value).v) })
         ELSE 1 + parse_schema_frames(value, ty.name, schema))

\* the call stack of parse_value: the greatest number of parse_value frames
\* that are open at once under this call, this call included.  The loop over
\* the items calls parse_value on an item when all items before it were parsed.
parse_value_frames(value, ty, schema) ==
    1 + (IF ty.type = "Primitive" THEN 0
         ELSE IF ty.type \in {"Array", "Span"}
             THEN IF ~as_array(value).some THEN 0
                  ELSE LET array == as_array(value).v
                       IN  Max({ parse_value_frames(array[i], ty.item_type, schema) :
                                   i \in { k \in 1..Len(array) :
                                             \A j \in 1..(k - 1) :
                                                parse_value(array[j], ty.item_type, schema).ok } })
         ELSE parse_schema_frames(value, ty.name, schema))

\* the call stack of parse_schema: the loop over the fields calls parse_value
\* on a field's value when all fields before it were found and parsed
parse_schema_frames(value, schema_name, schema) ==
    IF schema_name \notin DOMAIN schema.schemas THEN 0
    ELSE LET fields == schema.schemas[schema_name].fields
             called == { k \in 1..Len(fields) :
                           /\ get(value, fields[k].name).some
                           /\ \A j \in 1..(k - 1) :
                                 /\ get(value, fields[j].name).some
                                 /\ parse_value(get(value, fields[j].name).v, fields[j].ty,
                                                schema).ok }
         IN  Max({ parse_value_frames(get(value, fields[k].name).v, fields[k].ty, schema) :
                     k \in called })

(***************************************************************************)
(* Legacy encoder: scarb-agent-lib/serialization.rs                        *)
(***************************************************************************)

\* InputSchema: schemas is the BTreeMap from record name to SchemaDef, whose
\* fields is the BTreeMap from field name to InputType, held in key order
InputSchema(schemas, cairo_input) == [schemas |-> schemas, cairo_input |-> cairo_input]

\* Value::as_object
as_object(value) == IF value.t = "Object" THEN Some(value) ELSE None

\* parse_byte_array: the full words, the pending word, the pending word length
lib_parse_byte_array(string) ==
    LET byte_array == ByteArray_from_string(string)
    IN  IF ~byte_array.ok THEN Err([msg |-> "Error parsing ByteArray"])
        ELSE Ok(<<FuncArgArray(byte_array.val.data),
                  FuncArgSingle(byte_array.val.pending_word),
                  FuncArgSingle(FeltFromU64(IntToBytes(byte_array.val.pending_word_len)))>>)

\* parse_value, "felt252": the string goes to Felt252::from_str as it is
lib_parse_felt252(value) ==
    LET string == as_str(value)
    IN  IF ~string.some THEN Err([msg |-> "Expected string for Felt252"])
        ELSE LET felt == Felt252_from_str(string.v)
             IN  IF ~felt.ok THEN felt ELSE Ok(<<FuncArgSingle(felt.val)>>)

\* parse_value, "ByteArray"
lib_parse_ByteArray(value) ==
    LET string == as_str(value)
    IN  IF ~string.some THEN Err([msg |-> "Expected string for ByteArray"])
        ELSE lib_parse_byte_array(string.v)

\* vec![FuncArg::Single(..)] around the one field element of a scalar
lib_single(parsed) == IF ~parsed.ok THEN parsed ELSE Ok(<<FuncArgSingle(parsed.val[1])>>)

\* parse_value, InputType::Primitive
lib_parse_primitive(value, name) ==
    IF name \in UNSIGNED_NAMES THEN lib_single(parse_unsigned(value, name))
    ELSE IF name \in SIGNED_NAMES THEN lib_single(parse_signed(value, name))
    ELSE IF name = "F64" THEN lib_single(parse_F64(value, name))
    ELSE IF name = "felt252" THEN lib_parse_felt252(value)
    ELSE IF name = "ByteArray" THEN lib_parse_ByteArray(value)
    ELSE IF name = "bool" THEN lib_single(parse_bool(value))
    ELSE Err([msg |-> "Unknown primitive type", name |-> name])

RECURSIVE lib_flat_map(_)
\* flat_map over the arguments: a Single gives its element, an Array its elements
lib_flat_map(args) ==
    IF args = <<>> THEN <<>>
    ELSE (IF Head(args).kind = "Single" THEN <<Head(args).val>> ELSE Head(args).vals)
         \o lib_flat_map(Tail(args))

RECURSIVE lib_parse_schema(_, _, _)
RECURSIVE lib_parse_value(_, _, _)
RECURSIVE lib_parse_fields(_, _, _, _, _)
RECURSIVE lib_parse_items(_, _, _, _)

\* parse_value, Array | Span: the loop over the items, result the vector so far
lib_parse_items(array, item_type, schema, result) ==
    IF array = <<>> THEN Ok(result)
    ELSE LET parsed == lib_parse_value(Head(array), item_type, schema)
         IN  IF ~parsed.ok THEN parsed
             ELSE lib_parse_items(Tail(array), item_type, schema, result \o parsed.val)

\* a variant of the legacy array encoder that puts the element count in front
lib_parse_array_length_prefixed(value, item_type, schema) ==
    LET array == as_array(value)
    IN  IF ~array.some THEN Err([msg |-> "Expected array"])
        ELSE LET items == lib_parse_items(array.v, item_type, schema, <<>>)
             IN  IF ~items.ok THEN items
                 ELSE Ok(<<FuncArgArray(<<FeltFromUsize(Len(array.v))>>
                                        \o lib_flat_map(items.val))>>)

\* parse_value, Array | Span: one Array argument of the flattened items
lib_parse_array(value, item_type, schema) ==
    LET array == as_array(value)
    IN  IF ~array.some THEN Err([msg |-> "Expected array"])
        ELSE LET items == lib_parse_items(array.v, item_type, schema, <<>>)
             IN  IF ~items.ok THEN items
                 ELSE Ok(<<FuncArgArray(lib_flat_map(items.val))>>)

lib_parse_value(value, ty, schema) ==
    IF ty.type = "Primitive" THEN lib_parse_primitive(value, ty.name)
    ELSE IF ty.type \in {"Array", "Span"} THEN lib_parse_array(value, ty.item_type, schema)
    ELSE lib_parse_schema(value, ty.name, schema)

\* parse_schema: the loop over the remaining fields, args the vector so far
lib_parse_fields(obj, fields, schema_name, schema, args) ==
    IF fields = <<>> THEN Ok(args)
    ELSE LET field == Head(fields)
             value == get(obj, field.name)
         IN  IF ~value.some
                 THEN Err([msg |-> "Missing field", field |-> field.name,
                           schema |-> schema_name])
             ELSE LET parsed == lib_parse_value(value.v, field.ty, schema)
                  IN  IF ~parsed.ok THEN parsed
                      ELSE lib_parse_fields(obj, Tail(fields), schema_name, schema,
                                            args \o parsed.val)

lib_parse_schema(value, schema_name, schema) ==
    LET obj == as_object(value)
    IN  IF ~obj.some THEN Err([msg |-> "Expected object for schema", name |-> schema_name])
        ELSE IF schema_name \notin DOMAIN schema.schemas
            THEN Err([msg |-> "Schema not found", name |-> schema_name])
        ELSE lib_parse_fields(obj.v, schema.schemas[schema_name].fields, schema_name,
                              schema, <<>>)

\* scarb_agent_lib process_json_args
lib_process_json_args(json_str, schema) ==
    LET json == serde_json_from_str(json_str)
    IN  IF ~json.ok THEN json
        ELSE lib_parse_schema(json.val, schema.cairo_input, schema)

(***************************************************************************)
(* VM values, VM memory and the Sierra type registry                       *)
(***************************************************************************)

\* MaybeRelocatable::Int
MaybeRelocatable_Int(felt) == [rel |-> FALSE, felt |-> felt]

\* MaybeRelocatable::RelocatableValue
RelocatableValue(segment_index, offset) ==
    [rel |-> TRUE, segment_index |-> segment_index, offset |-> offset]

get_int(v) == IF v.rel THEN None ELSE Some(v.felt)

get_relocatable(v) == IF v.rel THEN Some(v) ELSE None

\* Relocatable - Relocatable: the offset difference within one segment
relocatable_sub(end, start) ==
    IF end.segment_index # start.segment_index \/ end.offset < start.offset
        THEN Err([msg |-> "MathError"])
    ELSE Ok(end.offset - start.offset)

\* the memory cell at segment s, offset o (segments are numbered from 0)
memory_get(vm, s, o) ==
    IF s + 1 \in 1..Len(vm.segments) /\ o + 1 \in 1..Len(vm.segments[s + 1])
        THEN Some(vm.segments[s + 1][o + 1])
    ELSE None

\* VirtualMachine::get_continuous_range: size cells from addr on, all present
get_continuous_range(vm, addr, size) ==
    IF \A i \in 0..(size - 1) : memory_get(vm, addr.segment_index, addr.offset + i).some
        THEN Ok([i \in 1..size |-> memory_get(vm, addr.segment_index, addr.offset + i - 1).v])
    ELSE Err([msg |-> "GetRangeMemoryGap"])

\* VirtualMachine::get_segment_size(..).unwrap_or_default()
get_segment_size(vm, s) ==
    IF s + 1 \in 1..Len(vm.segments) THEN Len(vm.segments[s + 1]) ELSE 0

\* Felt252::to_hex_string: 0x and the lowercase digits without leading zeros
to_hex_string(felt) ==
    LET h == hex_encode(felt)
    IN  IF felt = <<>> THEN <<48, 120, 48>>
        ELSE <<48, 120>> \o (IF h[1] = 48 THEN Tail(h) ELSE h)

\* Felt252::to_u128
to_u128(felt) == IF Len(felt) <= 16 THEN Some(felt) ELSE None

\* Felt252::to_usize (64 bits)
to_usize(felt) == IF Len(felt) <= 8 THEN Some(felt) ELSE None

\* SIGNED_FELT_MAX = PRIME >> 1
SIGNED_FELT_MAX == <<4, 0, 0, 0, 0, 0, 0, 8, 128>> \o Zeros(23)

\* a variant of signed_felt that reads every field element as non-negative
signed_felt_unsigned(felt) == [neg |-> FALSE, mag |-> felt]

\* math_utils::signed_felt: values above PRIME >> 1 are negative
signed_felt(felt) ==
    IF BigLess(SIGNED_FELT_MAX, felt) THEN [neg |-> TRUE, mag |-> BigSub(PRIME, felt)]
    ELSE [neg |-> FALSE, mag |-> felt]

TWO127 == <<128>> \o Zeros(15)

\* BigInt::to_i128
to_i128(n) ==
    IF BigLess(n.mag, TWO127) \/ (n.neg /\ n.mag = TWO127) THEN Some(n) ELSE None

\* serde_json::Number from an i128
Number_from_i128(n) == IF n.neg THEN JNegInt(n.mag) ELSE JPosInt(n.mag)

\* the number of significant bits of a normalised byte form
BitLen(b) ==
    IF b = <<>> THEN 0
    ELSE 8 * (Len(b) - 1) + (CHOOSE k \in 1..8 : Pow2(k - 1) <= b[1] /\ b[1] < Pow2(k))

\* an integer as the nearest f64 (53 significant bits, ties to even): mag * 2^e
f64_from_integer(mag) ==
    IF BitLen(mag) <= 53 THEN [mag |-> mag, e |-> 0]
    ELSE LET shift == BitLen(mag) - 53
             q     == ShiftRight(mag, shift)
             r     == BigSub(mag, ShiftLeft(q, shift))
             half  == ShiftLeft(<<1>>, shift - 1)
             up    == BigLess(half, r) \/ (r = half /\ q[Len(q)] % 2 = 1)
         IN  [mag |-> IF up THEN BigMulAdd(q, 1, 1) ELSE q, e |-> shift]

\* Number::as_f64 of a decoded integer, divided by 2^32
f64_div_pow2(number, k) ==
    LET f == f64_from_integer(number.mag)
    IN  JFloat(number.n = "NegInt", f.mag, f.e - k)

\* MaybeRelocatable's Display: the decimal felt, or segment:offset
\* (decimal digits are produced for values below 2^16)
MaybeRelocatable_to_string(v) ==
    IF v.rel THEN ToString(v.segment_index) \o ":" \o ToString(v.offset)
    ELSE IF Len(v.felt) <= 2 THEN ToString(BytesToInt(v.felt))
    ELSE "felt" \o ToString(v.felt)

RECURSIVE utf8_from(_, _)
\* core::str::from_utf8 succeeds on the bytes from position i on
utf8_from(bytes, i) ==
    IF i > Len(bytes) THEN TRUE
    ELSE LET b == bytes[i]
             n == IF b < 128 THEN 1
                  ELSE IF b \in 194..223 THEN 2
                  ELSE IF b \in 224..239 THEN 3
                  ELSE IF b \in 240..244 THEN 4
                  ELSE 0
         IN  /\ n > 0
             /\ i + n - 1 <= Len(bytes)
             /\ \A j \in (i + 1)..(i + n - 1) : bytes[j] \in 128..191
             /\ b = 224 => bytes[i + 1] >= 160
             /\ b = 237 => bytes[i + 1] <= 159
             /\ b = 240 => bytes[i + 1] >= 144
             /\ b = 244 => bytes[i + 1] <= 143
             /\ utf8_from(bytes, i + n)

String_from_utf8(bytes) == IF utf8_from(bytes, 1) THEN Ok(bytes) ELSE Err([msg |-> "FromUtf8Error"])

(***************************************************************************)
(* serde_json::Map and the outcomes of a decode                            *)
(***************************************************************************)

\* the keys that decoded objects hold, in byte order
SORTED_KEYS ==
    <<"0", "1", "1:0", "1:4", "1:6", "2", "42", "5", "7", "9",
      "a", "alpha", "b", "items", "n", "p", "q", "value", "x", "y", "zeta">>

\* the position of a key in the byte order of the keys
KeyRank(key) == CHOOSE i \in 1..Len(SORTED_KEYS) : SORTED_KEYS[i] = key

\* a variant of Map::insert that keeps the value already stored under the key
Map_insert_keeps_first(map, key, value, preserve_order) ==
    IF \E i \in 1..Len(map) : map[i].k = key THEN map
    ELSE IF preserve_order THEN Append(map, KV(key, value))
    ELSE LET n == Cardinality({ i \in 1..Len(map) : KeyRank(map[i].k) < KeyRank(key) })
         IN  SubSeq(map, 1, n) \o <<KV(key, value)>> \o SubSeq(map, n + 1, Len(map))

\* Map::insert: the value replaces the one stored under the key; a new key goes
\* last when serde_json is built with preserve_order, to its sorted place otherwise
Map_insert(map, key, value, preserve_order) ==
    IF \E i \in 1..Len(map) : map[i].k = key
        THEN [i \in 1..Len(map) |-> IF map[i].k = key THEN KV(key, value) ELSE map[i]]
    ELSE IF preserve_order THEN Append(map, KV(key, value))
    ELSE LET n == Cardinality({ i \in 1..Len(map) : KeyRank(map[i].k) < KeyRank(key) })
         IN  SubSeq(map, 1, n) \o <<KV(key, value)>> \o SubSeq(map, n + 1, Len(map))

\* a decode that returned: the value and the iterator after it
Value(v, rest) == [t |-> "value", v |-> v, rest |-> rest]

\* a decode that panicked
Panic(msg) == [t |-> "panic", msg |-> msg]

\* serialize_output returned the text that writes the JSON value
Text(json) == [t |-> "text", json |-> json]

\* a decode whose array loop repeats one iteration without end
Diverges == [t |-> "diverges"]

\* return_values_iter.next().expect("Missing return value").get_int().expect(msg)
next_int(iter, msg) ==
    IF iter = <<>> THEN Panic("Missing return value")
    ELSE IF Head(iter).rel THEN Panic(msg)
    ELSE Value(Head(iter).felt, Tail(iter))

\* return_values_iter.next().expect("Missing return value").get_relocatable().expect(msg)
next_relocatable(iter, msg) ==
    IF iter = <<>> THEN Panic("Missing return value")
    ELSE IF ~Head(iter).rel THEN Panic(msg)
    ELSE Value(Head(iter), Tail(iter))

\* a user type's debug name: the path and the generic arguments after it
DebugName(path, args) == [path |-> path, args |-> args]

\* the type has no named user type
NoDebugName == [path |-> "", args |-> ""]

\* str::starts_with on a debug name, for a prefix that is a whole path
starts_with(debug_name, path) == debug_name.path # "" /\ debug_name.path = path

\* CoreTypeConcrete of the kinds without type arguments
Scalar(kind) == [kind |-> kind]

\* CoreTypeConcrete::Array, Box, NonZero, Nullable, Snapshot, Felt252Dict, SquashedFelt252Dict
Wrapper(kind, ty) == [kind |-> kind, ty |-> ty]

\* CoreTypeConcrete::Enum
EnumType(debug_name, variants) ==
    [kind |-> "Enum", debug_name |-> debug_name, variants |-> variants]

\* CoreTypeConcrete::Struct; generic_arg1 is generic_args.get(1) when it is a type
StructType(debug_name, generic_arg1, members) ==
    [kind |-> "Struct", debug_name |-> debug_name, generic_arg1 |-> generic_arg1,
     members |-> members]

(***************************************************************************)
(* The Sierra program whose return values are decoded                      *)
(***************************************************************************)

SPAN == "core::array::Span"

OPTION == "core::option::Option"

PANIC_RESULT == "core::panics::PanicResult"

\* ProgramRegistry::get_type: the concrete type of every declared type id
sierra_program_registry ==
    [ felt252      |-> Scalar("Felt252"),
      bytes31      |-> Scalar("Bytes31"),
      BoundedInt   |-> Scalar("BoundedInt"),
      u8           |-> Scalar("Uint8"),
      u16          |-> Scalar("Uint16"),
      u32          |-> Scalar("Uint32"),
      u64          |-> Scalar("Uint64"),
      u128         |-> Scalar("Uint128"),
      i8           |-> Scalar("Sint8"),
      i16          |-> Scalar("Sint16"),
      i32          |-> Scalar("Sint32"),
      i64          |-> Scalar("Sint64"),
      i128         |-> Scalar("Sint128"),
      GasBuiltin   |-> Scalar("GasBuiltin"),
      Const        |-> Scalar("Const"),
      RangeCheck   |-> Scalar("RangeCheck"),
      Unit         |-> StructType(DebugName("Tuple", ""), None, <<>>),
      Unsized      |-> StructType(DebugName("Tuple", ""), None, <<>>),
      bool         |-> EnumType(DebugName("core::bool", ""), <<"Unit", "Unit">>),
      Bool3        |-> EnumType(DebugName("core::bool", ""), <<"Unit", "Unit", "Unit">>),
      BoolWide     |-> EnumType(DebugName("core::bool", ""), <<"Unit", "u32">>),
      BoolUnsized  |-> EnumType(DebugName("core::bool", ""), <<"Unit", "Unsized">>),
      OptionU32    |-> EnumType(DebugName(OPTION, "::<core::integer::u32>"), <<"u32", "Unit">>),
      Shape        |-> EnumType(DebugName("demo::Shape", ""), <<"Unit", "u32", "PairT">>),
      PanicResult  |-> EnumType(DebugName(PANIC_RESULT, "::<(core::integer::u32,)>"),
                                <<"u32", "ArrayFelt">>),
      ArrayU32     |-> Wrapper("Array", "u32"),
      ArrayI32     |-> Wrapper("Array", "i32"),
      ArrayFelt    |-> Wrapper("Array", "felt252"),
      ArrayBytes31 |-> Wrapper("Array", "bytes31"),
      ArrayPairT   |-> Wrapper("Array", "PairT"),
      SnapArrayI32 |-> Wrapper("Snapshot", "ArrayI32"),
      SpanI32      |-> StructType(DebugName(SPAN, "::<core::integer::i32>"),
                                  Some("SnapArrayI32"), <<"SnapArrayI32">>),
      BoxU32       |-> Wrapper("Box", "u32"),
      BoxPairT     |-> Wrapper("Box", "PairT"),
      NullableU32  |-> Wrapper("Nullable", "u32"),
      NonZeroU32   |-> Wrapper("NonZero", "u32"),
      DictU32      |-> Wrapper("Felt252Dict", "u32"),
      SquashedU32  |-> Wrapper("SquashedFelt252Dict", "u32"),
      F64          |-> StructType(DebugName("orion_numbers::f64::F64", ""), None, <<"i64">>),
      ByteArray    |-> StructType(DebugName("core::byte_array::ByteArray", ""), None,
                                  <<"ArrayBytes31", "felt252", "u32">>),
      OutputT      |-> StructType(DebugName("demo::Output", ""), None, <<"u32">>),
      PairT        |-> StructType(DebugName("demo::Pair", ""), None, <<"u32", "u32">>),
      OuterT       |-> StructType(DebugName("demo::Outer", ""), None, <<"PairT", "SpanI32">>),
      ListT        |-> StructType(DebugName("demo::List", ""), None, <<"ArrayPairT", "u32">>) ]

\* the size in stream elements of every sized type id (Unsized has no entry)
type_sizes ==
    [ felt252 |-> 1, bytes31 |-> 1, BoundedInt |-> 1, u8 |-> 1, u16 |-> 1, i8 |-> 1, i16 |-> 1, u32 |-> 1, u64 |-> 1,
      u128 |-> 1, i32 |-> 1, i64 |-> 1, i128 |-> 1, GasBuiltin |-> 1, Const |-> 1,
      RangeCheck |-> 1, Unit |-> 0, bool |-> 1, Bool3 |-> 1, BoolWide |-> 2,
      BoolUnsized |-> 1, OptionU32 |-> 2, Shape |-> 3, PanicResult |-> 3, ArrayU32 |-> 2,
      ArrayI32 |-> 2, ArrayFelt |-> 2, ArrayBytes31 |-> 2, ArrayPairT |-> 2,
      SnapArrayI32 |-> 2, SpanI32 |-> 2, BoxU32 |-> 1, BoxPairT |-> 1, NullableU32 |-> 1,
      NonZeroU32 |-> 1, DictU32 |-> 1, SquashedU32 |-> 2, F64 |-> 1, ByteArray |-> 4,
      OutputT |-> 1, PairT |-> 2, OuterT |-> 4, ListT |-> 3 ]

(***************************************************************************)
(* The decoder: cairo_output.rs                                            *)
(* sierra_program_registry and type_sizes are the definitions further down *)
(***************************************************************************)

RECURSIVE serialize_output_inner(_, _, _, _, _, _)
RECURSIVE array_items(_, _, _, _, _, _, _)
RECURSIVE struct_members(_, _, _, _, _, _, _, _)
RECURSIVE dict_entries(_, _, _, _, _, _, _, _)

\* the while loop of the Array arm: an element that consumes nothing leaves the
\* loop condition true with the same iterator
array_items(array_data_iter, vm, array_elem_id, schema, current_schema_name, preserve_order, json_array) ==
    IF array_data_iter = <<>> THEN Value(json_array, <<>>)
    ELSE LET elem == serialize_output_inner(array_data_iter, vm, array_elem_id, schema,
                                            current_schema_name, preserve_order)
         IN  IF elem.t # "value" THEN elem
             ELSE IF Len(elem.rest) = Len(array_data_iter) THEN Diverges
             ELSE array_items(elem.rest, vm, array_elem_id, schema, current_schema_name,
                              preserve_order, Append(json_array, elem.v))

\* CoreTypeConcrete::Array
serialize_Array(return_values_iter, vm, info, schema, current_schema_name, preserve_order) ==
    LET array_start == next_relocatable(return_values_iter, "Array start_ptr not Relocatable")
    IN  IF array_start.t # "value" THEN array_start
        ELSE
    LET array_end == next_relocatable(array_start.rest, "Array end_ptr not Relocatable")
    IN  IF array_end.t # "value" THEN array_end
        ELSE
    LET array_size == relocatable_sub(array_end.v, array_start.v)
    IN  IF ~array_size.ok THEN Panic("called unwrap on an Err value")
        ELSE
    LET array_data == get_continuous_range(vm, array_start.v, array_size.val)
    IN  IF ~array_data.ok THEN Panic("called unwrap on an Err value")
        ELSE
    LET items == array_items(array_data.val, vm, info.ty, schema, current_schema_name,
                             preserve_order, <<>>)
    IN  IF items.t # "value" THEN items
        ELSE Value(JArray(items.v), array_end.rest)

\* the pointee of a Box or of a non-null Nullable
serialize_pointee(ptr, rest, vm, info, schema, current_schema_name, preserve_order) ==
    IF info.ty \notin DOMAIN type_sizes THEN Panic("index: key not found")
    ELSE IF type_sizes[info.ty] < 0 THEN Panic("could not parse to usize")
    ELSE LET data == get_continuous_range(vm, ptr, type_sizes[info.ty])
         IN  IF ~data.ok THEN Panic("Failed to extract value from nullable ptr")
             ELSE LET inner == serialize_output_inner(data.val, vm, info.ty, schema,
                                                      current_schema_name, preserve_order)
                  IN  IF inner.t # "value" THEN inner ELSE Value(inner.v, rest)

\* CoreTypeConcrete::Box
serialize_Box(return_values_iter, vm, info, schema, current_schema_name, preserve_order) ==
    LET ptr == next_relocatable(return_values_iter, "Box Pointer is not Relocatable")
    IN  IF ptr.t # "value" THEN ptr
        ELSE serialize_pointee(ptr.v, ptr.rest, vm, info, schema, current_schema_name,
                               preserve_order)

\* a variant of the Nullable case that reads every integer as null
serialize_Nullable_any_integer(return_values_iter, vm, info, schema, current_schema_name, preserve_order) ==
    IF return_values_iter = <<>> THEN Panic("Missing return value")
    ELSE LET head == Head(return_values_iter)
         IN  IF head.rel
                 THEN serialize_pointee(head, Tail(return_values_iter), vm, info, schema,
                                        current_schema_name, preserve_order)
             ELSE Value(JNull, Tail(return_values_iter))

\* CoreTypeConcrete::Nullable
serialize_Nullable(return_values_iter, vm, info, schema, current_schema_name, preserve_order) ==
    IF return_values_iter = <<>> THEN Panic("Missing return value")
    ELSE LET head == Head(return_values_iter)
         IN  IF head.rel
                 THEN serialize_pointee(head, Tail(return_values_iter), vm, info, schema,
                                        current_schema_name, preserve_order)
             ELSE IF head.felt = <<>> THEN Value(JNull, Tail(return_values_iter))
             ELSE Panic("Invalid Nullable")

\* CoreTypeConcrete::Felt252, BoundedInt, Bytes31
serialize_Felt252(return_values_iter) ==
    LET val == next_int(return_values_iter, "Value is not an integer")
    IN  IF val.t # "value" THEN val
        ELSE Value(JString(to_hex_string(val.v)), val.rest)

\* CoreTypeConcrete::Uint8 .. Uint128
serialize_Uint(return_values_iter) ==
    LET val == next_int(return_values_iter, "Value is not an integer")
    IN  IF val.t # "value" THEN val
        ELSE IF ~to_u128(val.v).some THEN Panic("called unwrap on a None value")
        ELSE Value(JPosInt(to_u128(val.v).v), val.rest)

\* CoreTypeConcrete::Sint8 .. Sint128
serialize_Sint(return_values_iter) ==
    LET val == next_int(return_values_iter, "Value is not an integer")
    IN  IF val.t # "value" THEN val
        ELSE IF ~to_i128(signed_felt(val.v)).some THEN Panic("called unwrap on a None value")
        ELSE Value(Number_from_i128(to_i128(signed_felt(val.v)).v), val.rest)

\* CoreTypeConcrete::GasBuiltin
serialize_GasBuiltin(return_values_iter) ==
    Value(JNull, IF return_values_iter = <<>> THEN <<>> ELSE Tail(return_values_iter))

\* a variant of the index rule that takes the tag as the index
variant_idx_direct(num_variants, casm_variant_idx) == casm_variant_idx

\* the Sierra variant index of a casm enum tag
variant_idx(num_variants, casm_variant_idx) ==
    IF num_variants > 2 THEN num_variants - 1 - (casm_variant_idx \div 2)
    ELSE casm_variant_idx

\* the largest size among the variants, from 0
max_variant_size(variants) ==
    LET sizes == { type_sizes[variants[i]] : i \in 1..Len(variants) } \cup {0}
    IN  CHOOSE m \in sizes : \A s \in sizes : s <= m

\* a variant of the padding check that only counts the elements
padding_is_counted(iter, count) == Len(iter) >= count

\* the padding check: the next `count` elements are the integer 0
padding_is_zero(iter, count) ==
    /\ Len(iter) >= count
    /\ \A i \in 1..count : iter[i] = MaybeRelocatable_Int(<<>>)

\* a variant of the sanity checks that looks at the variant index only
bool_sanity_checks_index_only(info, num_variants, idx) == idx < 2

\* the sanity checks of core::bool: two variants, both of size zero
bool_sanity_checks(info, num_variants, idx) ==
    /\ num_variants = 2
    /\ idx < 2
    /\ \A i \in 1..2 : /\ info.variants[i] \in DOMAIN type_sizes
                       /\ type_sizes[info.variants[i]] = 0

\* CoreTypeConcrete::Enum
serialize_Enum(return_values_iter, vm, info, schema, current_schema_name, preserve_order) ==
    IF starts_with(info.debug_name, "core::panics::PanicResult")
        THEN IF info.variants = <<>> THEN Panic("index out of bounds")
             ELSE serialize_output_inner(return_values_iter, vm, info.variants[1], schema,
                                         current_schema_name, preserve_order)
    ELSE
    LET num_variants == Len(info.variants)
        tag          == next_int(return_values_iter, "Enum tag is not integer")
    IN  IF tag.t # "value" THEN tag
        ELSE IF ~to_usize(tag.v).some THEN Panic("Invalid enum tag")
        ELSE IF Len(tag.v) > 2 THEN Panic("index out of bounds")
        ELSE
    LET idx == variant_idx(num_variants, BytesToInt(tag.v))
    IN  IF idx < 0 \/ idx >= num_variants THEN Panic("index out of bounds")
        ELSE
    LET variant_type_id == info.variants[idx + 1]
    IN  IF info.debug_name = DebugName("core::bool", "")
            THEN IF bool_sanity_checks(info, num_variants, idx)
                 THEN Value(JBool(idx # 0), tag.rest)
                 ELSE Panic("Malformed bool enum")
        ELSE IF \E i \in 1..num_variants : info.variants[i] \notin DOMAIN type_sizes
            THEN Panic("called unwrap on a None value")
        ELSE
    LET padding == max_variant_size(info.variants) - type_sizes[variant_type_id]
    IN  IF ~padding_is_zero(tag.rest, padding) THEN Panic("Malformed enum")
        ELSE serialize_output_inner(SubSeq(tag.rest, padding + 1, Len(tag.rest)), vm,
                                    variant_type_id, schema, current_schema_name,
                                    preserve_order)

\* the struct is a F64: its first member, divided by 2^32
serialize_F64(return_values_iter, vm, info, schema, current_schema_name, preserve_order) ==
    IF info.members = <<>> THEN Panic("index out of bounds")
    ELSE LET data == serialize_output_inner(return_values_iter, vm, info.members[1], schema,
                                            current_schema_name, preserve_order)
         IN  IF data.t # "value" THEN data
             ELSE IF data.v.t # "Number" THEN Panic("called unwrap on a None value")
             ELSE Value(f64_div_pow2(data.v, FRAC_BITS), data.rest)

\* felt_to_utf8: the last len bytes of the 32-byte form of the felt
felt_to_utf8(felt, len) ==
    IF len > MAX_WORD_LEN + 1 THEN Panic("attempt to subtract with overflow")
    ELSE LET bytes == PadTo(felt, 32)
         IN  String_from_utf8(SubSeq(bytes, 32 - len + 1, 32))

RECURSIVE words_to_string(_)
\* the text of the data words, each one 31 bytes
words_to_string(data) ==
    IF data = <<>> THEN Ok(<<>>)
    ELSE LET word == felt_to_utf8(Head(data), MAX_WORD_LEN)
             more == words_to_string(Tail(data))
         IN  IF ~word.ok THEN word
             ELSE IF ~more.ok THEN more
             ELSE Ok(word.val \o more.val)

\* ByteArray::to_string
ByteArray_to_string(byte_array) ==
    LET words   == words_to_string(byte_array.data)
        pending == IF byte_array.pending_word_len > 0
                   THEN felt_to_utf8(byte_array.pending_word, byte_array.pending_word_len)
                   ELSE Ok(<<>>)
    IN  IF ~words.ok THEN words
        ELSE IF "t" \in DOMAIN pending THEN pending
        ELSE IF ~pending.ok THEN pending
        ELSE Ok(words.val \o pending.val)

\* Felt252::from_hex(&v.as_str().unwrap()[2..]).unwrap() on a decoded JSON value
felt_from_json_hex(v) ==
    IF v.t # "String" THEN Panic("called unwrap on a None value")
    ELSE IF Len(v.s) < 2 THEN Panic("byte index out of range")
    ELSE LET felt == from_hex(SubSeq(v.s, 3, Len(v.s)))
         IN  IF ~felt.ok THEN Panic("called unwrap on an Err value") ELSE Value(felt.val, <<>>)

\* the struct is a ByteArray: data, pending_word and pending_word_len, then the text
serialize_ByteArray(return_values_iter, vm, info, schema, current_schema_name, preserve_order) ==
    IF Len(info.members) < 3 THEN Panic("index out of bounds")
    ELSE
    LET data == serialize_output_inner(return_values_iter, vm, info.members[1], schema,
                                       current_schema_name, preserve_order)
    IN  IF data.t # "value" THEN data
        ELSE
    LET pending_word == serialize_output_inner(data.rest, vm, info.members[2], schema,
                                               current_schema_name, preserve_order)
    IN  IF pending_word.t # "value" THEN pending_word
        ELSE
    LET pending_word_len == serialize_output_inner(pending_word.rest, vm, info.members[3],
                                                   schema, current_schema_name,
                                                   preserve_order)
    IN  IF pending_word_len.t # "value" THEN pending_word_len
        ELSE
    LET arr   == IF data.v.t = "Array" THEN data.v.a ELSE <<>>
        words == [i \in 1..Len(arr) |-> felt_from_json_hex(arr[i])]
        word  == felt_from_json_hex(pending_word.v)
        len   == as_u64(pending_word_len.v)
    IN  IF \E i \in 1..Len(words) : words[i].t # "value"
            THEN Panic("called unwrap on a None value")
        ELSE IF \E i \in 1..Len(words) : Len(words[i].v) > MAX_WORD_LEN
            THEN Panic("called unwrap on an Err value")
        ELSE IF word.t # "value" THEN word
        ELSE IF ~len.some THEN Panic("called unwrap on a None value")
        ELSE
    LET \* every length above 32 fails alike
        n    == IF Len(len.v) > 1 THEN MAX_WORD_LEN + 2 ELSE BytesToInt(len.v)
        text == ByteArray_to_string([data             |-> [i \in 1..Len(words) |-> words[i].v],
                                     pending_word     |-> word.v,
                                     pending_word_len |-> n])
    IN  IF "t" \in DOMAIN text THEN text
        ELSE IF text.ok THEN Value(JString(text.val), pending_word_len.rest)
        ELSE Value(JNull, pending_word_len.rest)

\* the resolution context of a member: the record a Struct field names, the
\* current one for every other field
member_schema_name(field_type, current_schema_name) ==
    IF field_type.type = "Struct" THEN field_type.name ELSE current_schema_name

\* the loop over the members of a generic struct, from member index on: a member
\* without a schema field at its position is skipped
struct_members(return_values_iter, vm, members, index, schema, current_schema_name, preserve_order, json_object) ==
    IF index > Len(members) THEN Value(JObject(json_object), return_values_iter)
    ELSE LET fields == schema.schemas[current_schema_name].fields
         IN  IF index > Len(fields)
                 THEN struct_members(return_values_iter, vm, members, index + 1, schema,
                                     current_schema_name, preserve_order, json_object)
             ELSE LET field  == fields[index]
                      member == serialize_output_inner(
                                    return_values_iter, vm, members[index], schema,
                                    member_schema_name(field.ty, current_schema_name),
                                    preserve_order)
                  IN  IF member.t # "value" THEN member
                      ELSE struct_members(member.rest, vm, members, index + 1, schema,
                                          current_schema_name, preserve_order,
                                          Map_insert(json_object, field.name, member.v,
                                                     preserve_order))

\* CoreTypeConcrete::Struct
serialize_Struct(return_values_iter, vm, info, schema, current_schema_name, preserve_order) ==
    IF starts_with(info.debug_name, "core::array::Span") /\ info.generic_arg1.some
        THEN serialize_output_inner(return_values_iter, vm, info.generic_arg1.v, schema,
                                    current_schema_name, preserve_order)
    ELSE IF starts_with(info.debug_name, "orion_numbers::f64::F64")
        THEN serialize_F64(return_values_iter, vm, info, schema, current_schema_name,
                           preserve_order)
    ELSE IF info.debug_name = DebugName("core::byte_array::ByteArray", "")
        THEN serialize_ByteArray(return_values_iter, vm, info, schema, current_schema_name,
                                 preserve_order)
    ELSE IF current_schema_name \notin DOMAIN schema.schemas
        THEN Panic("Schema not found")
    ELSE struct_members(return_values_iter, vm, info.members, 1, schema,
                        current_schema_name, preserve_order, <<>>)

\* the loop over the triplets (key, _, value) of a dictionary's memory
dict_entries(dict_mem, i, vm, value_type_id, schema, current_schema_name, preserve_order, json_object) ==
    IF i + 2 > Len(dict_mem) THEN Value(JObject(json_object), <<>>)
    ELSE LET key_string == MaybeRelocatable_to_string(dict_mem[i])
             value      == serialize_output_inner(<<dict_mem[i + 2]>>, vm, value_type_id,
                                                  schema, current_schema_name,
                                                  preserve_order)
         IN  IF value.t # "value" THEN value
             ELSE dict_entries(dict_mem, i + 3, vm, value_type_id, schema,
                               current_schema_name, preserve_order,
                               Map_insert(json_object, key_string, value.v, preserve_order))

\* a variant of the validity check that compares the offset with the segment size only
valid_Felt252Dict_size_only(vm, dict_ptr) ==
    dict_ptr.offset = get_segment_size(vm, dict_ptr.segment_index)

\* the validity check of a live dictionary's pointer
valid_Felt252Dict(vm, dict_ptr) ==
    /\ dict_ptr.offset = get_segment_size(vm, dict_ptr.segment_index)
    /\ dict_ptr.offset % 3 = 0

\* the validity check of a squashed dictionary's size
valid_SquashedFelt252Dict(dict_size) == dict_size % 3 = 0

\* the memory of a dictionary, decoded
serialize_dict_mem(dict_start, dict_size, rest, vm, info, schema, current_schema_name, preserve_order) ==
    LET dict_mem == get_continuous_range(vm, dict_start, dict_size)
    IN  IF ~dict_mem.ok THEN Panic("Malformed dictionary memory")
        ELSE LET entries == dict_entries(dict_mem.val, 1, vm, info.ty, schema,
                                         current_schema_name, preserve_order, <<>>)
             IN  IF entries.t # "value" THEN entries ELSE Value(entries.v, rest)

\* CoreTypeConcrete::Felt252Dict
serialize_Felt252Dict(return_values_iter, vm, info, schema, current_schema_name, preserve_order) ==
    LET dict_ptr == next_relocatable(return_values_iter, "Dict Ptr not Relocatable")
    IN  IF dict_ptr.t # "value" THEN dict_ptr
        ELSE IF ~valid_Felt252Dict(vm, dict_ptr.v)
            THEN Panic("Return value is not a valid Felt252Dict")
        ELSE serialize_dict_mem(RelocatableValue(dict_ptr.v.segment_index, 0),
                                dict_ptr.v.offset, dict_ptr.rest, vm, info, schema,
                                current_schema_name, preserve_order)

\* CoreTypeConcrete::SquashedFelt252Dict
serialize_SquashedFelt252Dict(return_values_iter, vm, info, schema, current_schema_name, preserve_order) ==
    LET dict_start == next_relocatable(return_values_iter,
                                       "Squashed dict_start ptr not Relocatable")
    IN  IF dict_start.t # "value" THEN dict_start
        ELSE
    LET dict_end == next_relocatable(dict_start.rest, "Squashed dict_end ptr not Relocatable")
    IN  IF dict_end.t # "value" THEN dict_end
        ELSE
    LET dict_size == relocatable_sub(dict_end.v, dict_start.v)
    IN  IF ~dict_size.ok THEN Panic("called unwrap on an Err value")
        ELSE IF ~valid_SquashedFelt252Dict(dict_size.val)
            THEN Panic("Return value is not a valid SquashedFelt252Dict")
        ELSE serialize_dict_mem(dict_start.v, dict_size.val, dict_end.rest, vm, info, schema,
                                current_schema_name, preserve_order)

UINT_KINDS == {"Uint8", "Uint16", "Uint32", "Uint64", "Uint128"}

SINT_KINDS == {"Sint8", "Sint16", "Sint32", "Sint64", "Sint128"}

\* serialize_output_inner: the match on the concrete type of return_type_id
serialize_output_inner(return_values_iter, vm, return_type_id, schema, current_schema_name, preserve_order) ==
    IF return_type_id \notin DOMAIN sierra_program_registry
        THEN Panic("called unwrap on an Err value")
    ELSE
    LET info == sierra_program_registry[return_type_id]
    IN  CASE info.kind = "Array" ->
                 serialize_Array(return_values_iter, vm, info, schema, current_schema_name,
                                 preserve_order)
          [] info.kind = "Box" ->
                 serialize_Box(return_values_iter, vm, info, schema, current_schema_name,
                               preserve_order)
          [] info.kind = "Const" -> Panic("not implemented")
          [] info.kind \in {"Felt252", "BoundedInt", "Bytes31"} ->
                 serialize_Felt252(return_values_iter)
          [] info.kind \in UINT_KINDS -> serialize_Uint(return_values_iter)
          [] info.kind \in SINT_KINDS -> serialize_Sint(return_values_iter)
          [] info.kind \in {"NonZero", "Snapshot"} ->
                 serialize_output_inner(return_values_iter, vm, info.ty, schema,
                                        current_schema_name, preserve_order)
          [] info.kind = "Nullable" ->
                 serialize_Nullable(return_values_iter, vm, info, schema,
                                    current_schema_name, preserve_order)
          [] info.kind = "Enum" ->
                 serialize_Enum(return_values_iter, vm, info, schema, current_schema_name,
                                preserve_order)
          [] info.kind = "Struct" ->
                 serialize_Struct(return_values_iter, vm, info, schema, current_schema_name,
                                  preserve_order)
          [] info.kind = "Felt252Dict" ->
                 serialize_Felt252Dict(return_values_iter, vm, info, schema,
                                       current_schema_name, preserve_order)
          [] info.kind = "SquashedFelt252Dict" ->
                 serialize_SquashedFelt252Dict(return_values_iter, vm, info, schema,
                                               current_schema_name, preserve_order)
          [] info.kind = "GasBuiltin" -> serialize_GasBuiltin(return_values_iter)
          [] OTHER -> Panic("Unexpected return type")

\* serde_json::to_string: the text, as the JSON value that it writes
serde_json_to_string(json_value) == Text(json_value)

\* serialize_output: the text "null" without a return type, the decoded value's
\* text otherwise; a panic or an endless loop inside the decode is the outcome
serialize_output(return_values, vm, return_type_id, schema, preserve_order) ==
    IF ~return_type_id.some THEN serde_json_to_string(JNull)
    ELSE LET json_value == serialize_output_inner(return_values, vm, return_type_id.v, schema,
                                                  schema.cairo_output, preserve_order)
         IN  IF json_value.t # "value" THEN json_value
             ELSE serde_json_to_string(json_value.v)

(***************************************************************************)
(* Bounds of the checked inputs                                            *)
(***************************************************************************)

\* longest generated string, in bytes (two full ByteArray words and more)
MaxStrLen == 64

\* longest generated array of integers
MaxArrayLen == 3

\* largest mantissa of a generated float
MaxMant == 7

(***************************************************************************)
(* Input strings.  Chars: '-' 45, '0' 48, '1' 49, '2' 50, '4' 52, '7' 55,  *)
(* 'N' 78, 'a' 97, 'e' 101, 'h' 104, 'i' 105, 'l' 108, 'o' 111, 'x' 120,   *)
(* 'z' 122; 195 169 is the UTF-8 form of e-acute.                          *)
(***************************************************************************)

\* a string of n lower-case letters
PatternString(n, k) == [i \in 1..n |-> 97 + ((i * k) % 26)]

ShortStrings ==
    { <<>>,                          \* ""
      <<45>>,                        \* "-"
      <<52, 50>>,                    \* "42"
      <<45, 52, 50>>,                \* "-42"
      <<48, 48, 55>>,                \* "007"
      <<49, 45, 50>>,                \* "1-2"
      <<48, 120, 50, 97>>,           \* "0x2a"
      <<48, 120>>,                   \* "0x"
      <<48, 120, 122, 122>>,         \* "0xzz"
      <<104, 105>>,                  \* "hi"
      <<104, 101, 108, 108, 111>>,   \* "hello"
      <<78, 97, 78>>,                \* "NaN"
      <<195, 169>> }                 \* e-acute

LongStrings == { PatternString(n, k) : n \in 1..MaxStrLen, k \in {1, 7} }

Strings == ShortStrings \cup LongStrings

(***************************************************************************)
(* Input JSON values                                                       *)
(***************************************************************************)

U64_MAX == <<255, 255, 255, 255, 255, 255, 255, 255>>

PosInts == { IntToBytes(n) : n \in {0, 1, 42, 255, 300} } \cup {I64_MAX, TWO63, U64_MAX}

NegInts == { IntToBytes(n) : n \in {1, 42} } \cup {TWO63}

FloatExps == {0 - 34, 0 - 33, 0 - 1, 31}

Floats == { JFloat(neg, IntToBytes(m), e) : neg \in BOOLEAN, m \in 1..MaxMant, e \in FloatExps }

JInt(n) == JPosInt(IntToBytes(n))

ScalarValues ==
    {JNull, JBool(TRUE), JBool(FALSE)}
    \cup { JPosInt(m) : m \in PosInts }
    \cup { JNegInt(m) : m \in NegInts }
    \cup Floats
    \cup { JString(s) : s \in Strings }

\* [1, 2, .., n]
IntArray(n) == JArray([i \in 1..n |-> JInt(i)])

ArrayValues ==
    { IntArray(n) : n \in 0..MaxArrayLen }
    \cup { JArray(<<JInt(1), JString(<<120>>)>>),
           JArray(<<JNegInt(IntToBytes(1)), JInt(2)>>),
           JArray(<<IntArray(2), IntArray(1)>>),
           JArray(<<IntArray(0), IntArray(0)>>),
           JArray(<<JObject(<<>>)>>) }

NestValues ==
    { JObject(<<KV("y", JInt(42)), KV("z", IntArray(3))>>),
      JObject(<<KV("z", IntArray(3)), KV("y", JInt(42))>>),
      JObject(<<KV("y", JInt(42)), KV("extra", JString(<<101>>)), KV("z", IntArray(2))>>),
      JObject(<<KV("y", JInt(42))>>),
      JObject(<<KV("y", JString(<<120>>)), KV("z", IntArray(1))>>),
      JObject(<<KV("extra", JInt(1))>>),
      JObject(<<>>) }

MyStructValues ==
    { JObject(<<KV("n", JInt(42)), KV("m", IntArray(3)), KV("o", o)>>) : o \in NestValues }
    \cup { JObject(<<KV("o", o), KV("m", IntArray(2)), KV("n", JNegInt(IntToBytes(42)))>>) :
             o \in NestValues }
    \cup { JObject(<<KV("n", JInt(42)), KV("m", IntArray(3))>>),
           JObject(<<KV("n", JInt(1)), KV("m", JString(<<120>>)),
                     KV("o", JObject(<<KV("y", JInt(42))>>))>>) }

NodeValues ==
    { JObject(<<KV("v", JInt(1)), KV("next", JArray(<<>>))>>),
      JObject(<<KV("v", JInt(1)),
                KV("next", JArray(<<JObject(<<KV("v", JInt(2)), KV("next", JArray(<<>>))>>)>>))>>),
      JObject(<<KV("v", JInt(1)),
                KV("next", JArray(<<JObject(<<KV("v", JInt(2))>>)>>))>>) }

StructArrayValues ==
    { JArray(<<o>>) : o \in NestValues }
    \cup { JArray(<<JObject(<<KV("y", JInt(1)), KV("z", IntArray(2))>>),
                    JObject(<<KV("z", IntArray(0)), KV("y", JInt(2))>>)>>) }

\* values for a record that has a field of its own record type
SelfValues ==
    { JObject(<<KV("request", JInt(42))>>),
      JObject(<<KV("request", JObject(<<>>))>>),
      JObject(<<KV("request", JObject(<<KV("request", JObject(<<KV("request", JNull)>>))>>))>>) }

FieldValues ==
    ScalarValues \cup ArrayValues \cup NestValues \cup MyStructValues
    \cup NodeValues \cup StructArrayValues \cup SelfValues

\* the documents: objects with and without the key "request", with and without
\* undeclared keys, in both key orders, and documents that are no object
Documents ==
    { JObject(<<KV("request", v)>>) : v \in FieldValues }
    \cup { JObject(<<KV("request", v), KV("unknown", JString(<<101>>))>>) : v \in FieldValues }
    \cup { JObject(<<KV("request", JInt(42)), KV("optional", JInt(7))>>),
           JObject(<<KV("optional", JInt(7)), KV("request", JInt(42))>>),
           JObject(<<KV("optional", JInt(7))>>),
           JObject(<<KV("unknown", JString(<<101>>))>>),
           JObject(<<>>),
           JInt(42), IntArray(3), JNull, JString(<<104, 105>>) }

\* the texts handed to process_json_args: a document, or a text that is no JSON
Inputs == { [valid |-> TRUE, value |-> d] : d \in Documents } \cup { [valid |-> FALSE] }

(***************************************************************************)
(* Input schemas                                                           *)
(***************************************************************************)

PRIMITIVE_NAMES == UNSIGNED_NAMES \cup SIGNED_NAMES \cup {"F64", "felt252", "ByteArray", "bool"}

NestDef == SchemaDef(<<Field("y", Primitive("u32")), Field("z", SpanOf(Primitive("i32")))>>)

MyStructDef ==
    SchemaDef(<<Field("n", Primitive("i64")), Field("m", SpanOf(Primitive("i32"))),
                Field("o", StructRef("Nest"))>>)

NodeDef == SchemaDef(<<Field("v", Primitive("u32")), Field("next", ArrayOf(StructRef("Node")))>>)

\* the record map with root record Input = {request: ty}
RequestSchema(ty) ==
    Schema([n \in {"Input", "Nest", "MyStruct", "Node"} |->
               CASE n = "Input"    -> SchemaDef(<<Field("request", ty)>>)
                 [] n = "Nest"     -> NestDef
                 [] n = "MyStruct" -> MyStructDef
                 [] n = "Node"     -> NodeDef],
           "Input", "null")

ItemTypes ==
    { Primitive("i32"), Primitive("u32"), ArrayOf(Primitive("u32")), SpanOf(Primitive("u32")),
      StructRef("Nest"), StructRef("Ghost") }

RequestTypes ==
    { Primitive(p) : p \in PRIMITIVE_NAMES \cup {"u128"} }
    \cup { ArrayOf(t) : t \in ItemTypes }
    \cup { SpanOf(t) : t \in ItemTypes }
    \cup { StructRef("MyStruct"), StructRef("Nest"), StructRef("Node"), StructRef("Ghost"),
           StructRef("Input") }

Schemas ==
    { RequestSchema(ty) : ty \in RequestTypes }
    \cup { \* two required fields
           Schema([n \in {"Input"} |->
                      SchemaDef(<<Field("request", Primitive("u32")),
                                  Field("optional", Primitive("u32"))>>)],
                  "Input", "null"),
           \* a record without fields
           Schema([n \in {"Input"} |-> SchemaDef(<<>>)], "Input", "null"),
           \* an input root that names no record
           Schema([n \in {"Input"} |-> SchemaDef(<<Field("request", Primitive("u32"))>>)],
                  "Missing", "null") }

(***************************************************************************)
(* Return values, memories and schemas of the checked decodes              *)
(***************************************************************************)

\* longest return-value stream tried with every type
MaxStreamLen == 2

\* longest return-value stream tried with the struct types
MaxStructStreamLen == 4

\* longest return-value stream tried with the enum types
MaxEnumStreamLen == 3

\* most repetitions of an endless array loop that are followed
MaxPushed == 2

\* the field element -1
FELT_MINUS_ONE == FeltNeg(<<1>>)

Cells ==
    { MaybeRelocatable_Int(f) : f \in {<<>>, <<1>>, <<2>>, <<42>>, FELT_MINUS_ONE} }
    \cup { RelocatableValue(1, o) : o \in {0, 4, 6} }
    \cup { RelocatableValue(2, 4) }

StructCells == { MaybeRelocatable_Int(<<42>>), RelocatableValue(1, 0), RelocatableValue(1, 4) }

EnumCells == { MaybeRelocatable_Int(f) : f \in {<<>>, <<1>>, <<2>>, <<4>>, <<42>>} }

\* the sequences over a set, up to a length
SeqsUpTo(S, n) == UNION { [1..k -> S] : k \in 0..n }

IntCells(values) == [i \in 1..Len(values) |-> MaybeRelocatable_Int(IntToBytes(values[i]))]

\* segment 1 holds six integers: as a dictionary, the key 5 twice
VmA == [segments |-> <<<<>>, IntCells(<<5, 0, 7, 5, 7, 9>>)>>]

\* segment 1 holds a pointer in a middle slot: as a dictionary, the key 42 twice;
\* segment 2 holds four integers, one more than a dictionary entry
VmB ==
    [segments |->
        <<<<>>, <<MaybeRelocatable_Int(<<42>>), RelocatableValue(1, 0), MaybeRelocatable_Int(<<1>>),
                  MaybeRelocatable_Int(<<42>>), MaybeRelocatable_Int(<<>>),
                  MaybeRelocatable_Int(<<2>>)>>,
          IntCells(<<5, 0, 7, 0>>)>>]

\* a VM without memory
NoVm == [segments |-> <<>>]

\* segment 1 holds three data words: the text "hi", a byte that is no UTF-8, and
\* a field element that does not fit in 31 bytes
VmC ==
    [segments |->
        <<<<>>, <<MaybeRelocatable_Int(<<104, 105>>), MaybeRelocatable_Int(<<255>>),
                  MaybeRelocatable_Int(FELT_MINUS_ONE)>>>>]

\* the return values of a ByteArray: the data array's pointers, the pending word
\* ("", "hi", e-acute, the byte 255) and its length
ByteArrayStreams ==
    { <<RelocatableValue(1, s), RelocatableValue(1, e), MaybeRelocatable_Int(w),
        MaybeRelocatable_Int(IntToBytes(l))>> :
        s \in 0..3, e \in 0..3, w \in {<<>>, <<104, 105>>, <<195, 169>>, <<255>>},
        l \in {0, 1, 2, 33} }

OUTPUT_RECORDS == {"Output", "Pair", "Outer", "Inner", "List", "Item", "Empty"}

\* the schema of the decodes, with the given output root
OutputSchema(cairo_output) ==
    Schema([n \in OUTPUT_RECORDS |->
               CASE n = "Output" -> SchemaDef(<<Field("value", Primitive("u32"))>>)
                 [] n = "Pair"   -> SchemaDef(<<Field("b", Primitive("u32")),
                                                Field("a", Primitive("u32"))>>)
                 [] n = "Outer"  -> SchemaDef(<<Field("zeta", StructRef("Inner")),
                                                Field("alpha", SpanOf(Primitive("i32")))>>)
                 [] n = "Inner"  -> SchemaDef(<<Field("y", Primitive("u32")),
                                                Field("x", Primitive("u32"))>>)
                 [] n = "List"   -> SchemaDef(<<Field("items", ArrayOf(StructRef("Item"))),
                                                Field("n", Primitive("u32"))>>)
                 [] n = "Item"   -> SchemaDef(<<Field("p", Primitive("u32")),
                                                Field("q", Primitive("u32"))>>)
                 [] n = "Empty"  -> SchemaDef(<<>>)],
           "Input", cairo_output)

STRUCT_TYPES == {"OutputT", "PairT", "OuterT", "ListT", "ArrayPairT"}

ENUM_TYPES == {"bool", "Bool3", "BoolWide", "BoolUnsized", "OptionU32", "Shape", "PanicResult"}

(***************************************************************************)
(* State machine: one call of process_json_args                            *)
(***************************************************************************)

VARIABLES schema, json_str, result, pc, return_values, vm, return_type_id, preserve_order,
          output

vars == <<schema, json_str, result, pc, return_values, vm, return_type_id, preserve_order,
          output>>

NoResult == [pending |-> TRUE]

\* the encoder's call: no program has run yet
Init ==
    /\ schema \in Schemas
    /\ json_str \in Inputs
    /\ result = NoResult
    /\ pc = "ready"
    /\ return_values = <<>>
    /\ vm = NoVm
    /\ return_type_id = None
    /\ preserve_order = FALSE
    /\ output = NoResult

\* the caller runs process_json_args on the text and the loaded schema
ProcessJsonArgs ==
    /\ pc = "ready"
    /\ result' = process_json_args(json_str, schema)
    /\ pc' = "done"
    /\ UNCHANGED <<schema, json_str, return_values, vm, return_type_id, preserve_order, output>>

Next == ProcessJsonArgs

Spec == Init /\ [][Next]_vars

\* the decoder's call: the program has returned its values
\* the calls that are checked: every type (and a type id that is not declared)
\* on short streams, the struct types under every output root, the enum types,
\* byte arrays, a function without return type
OutputInit ==
    /\ \/ /\ return_values \in SeqsUpTo(Cells, MaxStreamLen)
          /\ vm \in {VmA, VmB}
          /\ return_type_id \in { Some(ty) : ty \in DOMAIN sierra_program_registry \cup {"Undeclared"} }
          /\ schema = OutputSchema("Pair")
          /\ preserve_order = TRUE
       \/ /\ return_values \in SeqsUpTo(StructCells, MaxStructStreamLen)
          /\ vm = VmA
          /\ return_type_id \in { Some(ty) : ty \in STRUCT_TYPES }
          /\ schema \in { OutputSchema(root) : root \in OUTPUT_RECORDS \cup {"Missing"} }
          /\ preserve_order \in BOOLEAN
       \/ /\ return_values \in SeqsUpTo(EnumCells, MaxEnumStreamLen)
          /\ vm = VmA
          /\ return_type_id \in { Some(ty) : ty \in ENUM_TYPES }
          /\ schema = OutputSchema("Pair")
          /\ preserve_order = TRUE
       \/ /\ return_values \in ByteArrayStreams
          /\ vm = VmC
          /\ return_type_id = Some("ByteArray")
          /\ schema = OutputSchema("Pair")
          /\ preserve_order = TRUE
       \/ /\ return_values \in SeqsUpTo(EnumCells, 1)
          /\ vm = NoVm
          /\ return_type_id = None
          /\ schema = OutputSchema("Pair")
          /\ preserve_order = TRUE
    /\ json_str = [valid |-> FALSE]
    /\ result = NoResult
    /\ pc = "returned"
    /\ output = NoResult

\* the caller runs serialize_output on the returned values: it returns the text,
\* panics, or enters an array loop that never ends
SerializeOutput ==
    /\ pc = "returned"
    /\ LET out == serialize_output(return_values, vm, return_type_id, schema, preserve_order)
       IN  /\ output' = IF out.t = "diverges" THEN [t |-> "diverges", pushed |-> 0] ELSE out
           /\ pc' = CASE out.t = "text"  -> "decoded"
                      [] out.t = "panic" -> "aborted"
                      [] OTHER           -> "looping"
    /\ UNCHANGED <<schema, json_str, result, return_values, vm, return_type_id,
                   preserve_order>>

\* one more iteration of an array loop whose element decode consumes nothing:
\* json_array grows, the iterator does not move
ArrayLoopIteration ==
    /\ pc = "looping"
    /\ output.pushed < MaxPushed
    /\ output' = [output EXCEPT !.pushed = @ + 1]
    /\ UNCHANGED <<schema, json_str, result, pc, return_values, vm, return_type_id,
                   preserve_order>>

OutputNext == SerializeOutput \/ ArrayLoopIteration

OutputSpec == OutputInit /\ [][OutputNext]_vars

\* OutputSpec with the steps of the one thread taken as long as there is one
OutputFairSpec == OutputSpec /\ WF_vars(OutputNext)

\* the primitive names whose value is one field element
SCALAR_NAMES == UNSIGNED_NAMES \cup SIGNED_NAMES \cup {"F64", "felt252", "bool"}

\* a program that returns its scalar argument unchanged: the emitted field element
\* is the return value, its type is the one the schema names
ReturnArguments ==
    /\ pc = "done"
    /\ result.ok
    /\ Len(result.val) = 1
    /\ \E p \in SCALAR_NAMES :
          /\ schema = RequestSchema(Primitive(p))
          /\ return_type_id' = Some(p)
    /\ return_values' = [i \in 1..Len(result.val[1].vals) |->
                            MaybeRelocatable_Int(result.val[1].vals[i])]
    /\ pc' = "returned"
    /\ UNCHANGED <<schema, json_str, result, vm, preserve_order, output>>

RoundTripNext == ProcessJsonArgs \/ ReturnArguments \/ SerializeOutput

\* encode, run, decode
RoundTripSpec == Init /\ [][RoundTripNext]_vars


(***************************************************************************)
(* The legacy encoder's call                                               *)
(***************************************************************************)

\* MyStruct with its fields in key order
LibMyStructDef ==
    SchemaDef(<<Field("m", SpanOf(Primitive("i32"))), Field("n", Primitive("i64")),
                Field("o", StructRef("Nest"))>>)

\* the record map with root record Input = {request: ty}
LibRequestSchema(ty) ==
    InputSchema([n \in {"Input", "MyStruct", "Nest"} |->
                    CASE n = "Input"    -> SchemaDef(<<Field("request", ty)>>)
                      [] n = "MyStruct" -> LibMyStructDef
                      [] n = "Nest"     -> NestDef],
                "Input")

LibItemTypes ==
    { Primitive("i32"), Primitive("ByteArray"), ArrayOf(Primitive("i32")),
      StructRef("Nest"), StructRef("Ghost") }

LibRequestTypes ==
    { Primitive(p) : p \in PRIMITIVE_NAMES \cup {"u128"} }
    \cup { ArrayOf(t) : t \in LibItemTypes }
    \cup { SpanOf(t) : t \in LibItemTypes }
    \cup { StructRef("MyStruct"), StructRef("Nest"), StructRef("Ghost") }

LibSchemas ==
    { LibRequestSchema(ty) : ty \in LibRequestTypes }
    \cup { \* two fields, in key order
           InputSchema([n \in {"Input"} |->
                           SchemaDef(<<Field("optional", Primitive("u32")),
                                       Field("request", Primitive("ByteArray"))>>)],
                       "Input"),
           \* an input root that names no record
           InputSchema([n \in {"Input"} |-> SchemaDef(<<Field("request", Primitive("u32"))>>)],
                       "Missing") }

\* the documents of the encoder, and arrays of strings
LibInputs ==
    Inputs
    \cup { [valid |-> TRUE, value |-> d] :
             d \in { JObject(<<KV("request", JArray(<<JString(<<104, 105>>),
                                                       JString(PatternString(33, 1))>>))>>),
                     JObject(<<KV("request", JString(<<104, 105>>)),
                               KV("optional", JInt(7))>>) } }

LibInit ==
    /\ schema \in LibSchemas
    /\ json_str \in LibInputs
    /\ result = NoResult
    /\ pc = "ready"
    /\ return_values = <<>>
    /\ vm = NoVm
    /\ return_type_id = None
    /\ preserve_order = FALSE
    /\ output = NoResult

\* the caller runs the legacy process_json_args on the text and the loaded schema
LibProcessJsonArgs ==
    /\ pc = "ready"
    /\ result' = lib_process_json_args(json_str, schema)
    /\ pc' = "done"
    /\ UNCHANGED <<schema, json_str, return_values, vm, return_type_id, preserve_order, output>>

LibNext == LibProcessJsonArgs

LibSpec == LibInit /\ [][LibNext]_vars
\* the caller makes the call that it has prepared
CallMade == pc = "ready" /\ pc' = "done"

\* the encoder's call under the scheduling of its caller: a call that stays
\* ready is made
FairSpec == Spec /\ WF_pc(CallMade)

TypeOK ==
    /\ pc \in {"ready", "done", "returned", "decoded", "aborted", "looping"}
    /\ pc = "done" => result # NoResult
    /\ pc \in {"decoded", "aborted", "looping"} => output # NoResult

(***************************************************************************)
(* Definitions used to state the properties                                *)
(***************************************************************************)

Done == pc = "done"

\* the call was made on a JSON document (the text parsed)
DoneOnDocument == pc = "done" /\ json_str.valid

RECURSIVE Flatten(_)
\* the concatenation of a sequence of sequences
Flatten(seqs) == IF seqs = <<>> THEN <<>> ELSE Head(seqs) \o Flatten(Tail(seqs))

\* the value stored under a key that the object holds
ValueOf(object, key) == (CHOOSE e \in { object.kv[i] : i \in 1..Len(object.kv) } : e.k = key).v

RECURSIVE RefRecord(_, _, _)
RECURSIVE RefValue(_, _, _)
\* reference encoding of a value that conforms to a type: primitives by the
\* primitive encoder, arrays as the count then the items, structs as their record
RefValue(value, ty, sch) ==
    IF ty.type = "Primitive" THEN parse_primitive(value, ty.name).val
    ELSE IF ty.type \in {"Array", "Span"}
        THEN <<IntToBytes(Len(value.a))>>
             \o Flatten([i \in 1..Len(value.a) |-> RefValue(value.a[i], ty.item_type, sch)])
    ELSE RefRecord(value, ty.name, sch)

\* reference encoding of a value that conforms to a record: the encodings of the
\* fields, in declaration order, one after the other
RefRecord(value, name, sch) ==
    LET fields == sch.schemas[name].fields
    IN  Flatten([i \in 1..Len(fields) |->
                    RefValue(ValueOf(value, fields[i].name), fields[i].ty, sch)])

RECURSIVE ReverseKeys(_)
\* the same JSON value with the entries of every object in reverse order
ReverseKeys(value) ==
    IF value.t = "Object"
        THEN JObject([i \in 1..Len(value.kv) |->
                        KV(value.kv[Len(value.kv) + 1 - i].k,
                           ReverseKeys(value.kv[Len(value.kv) + 1 - i].v))])
    ELSE IF value.t = "Array"
        THEN JArray([i \in 1..Len(value.a) |-> ReverseKeys(value.a[i])])
    ELSE value

\* the object holds the key
HasKey(value, key) == value.t = "Object" /\ \E i \in 1..Len(value.kv) : value.kv[i].k = key

\* the result that holds one whole-argument block
OkBlock(vals) == Ok(<<FuncArgArray(vals)>>)

\* the record's field names
FieldNames(def) == { def.fields[i].name : i \in 1..Len(def.fields) }

\* the declared type of a field of a record
FieldType(def, name) == (CHOOSE f \in { def.fields[i] : i \in 1..Len(def.fields) } : f.name = name).ty

RECURSIVE HasMissingRecord(_, _, _)
RECURSIVE HasMissingValue(_, _, _)
\* some record that the schema pairs with a part of the value declares a field
\* for which that part has no key
HasMissingValue(value, ty, sch) ==
    IF ty.type = "Primitive" THEN FALSE
    ELSE IF ty.type \in {"Array", "Span"}
        THEN value.t = "Array"
             /\ \E i \in 1..Len(value.a) : HasMissingValue(value.a[i], ty.item_type, sch)
    ELSE HasMissingRecord(value, ty.name, sch)

HasMissingRecord(value, name, sch) ==
    /\ name \in DOMAIN sch.schemas
    /\ \E i \in 1..Len(sch.schemas[name].fields) :
          LET f == sch.schemas[name].fields[i]
          IN  \/ ~HasKey(value, f.name)
              \/ HasKey(value, f.name) /\ HasMissingValue(ValueOf(value, f.name), f.ty, sch)

RECURSIVE FirstMissingRecord(_, _, _)
RECURSIVE FirstMissingValue(_, _, _)
\* the first missing field in walk order (fields in declaration order, array
\* items in order), as the error that reports it; None when nothing is missing
FirstMissingValue(value, ty, sch) ==
    IF ty.type = "Primitive" THEN None
    ELSE IF ty.type \in {"Array", "Span"}
        THEN IF value.t = "Array" /\ HasMissingValue(value, ty, sch)
             THEN FirstMissingValue(
                      value.a[CHOOSE i \in 1..Len(value.a) :
                                 /\ HasMissingValue(value.a[i], ty.item_type, sch)
                                 /\ \A j \in 1..(i - 1) :
                                       ~HasMissingValue(value.a[j], ty.item_type, sch)],
                      ty.item_type, sch)
             ELSE None
    ELSE FirstMissingRecord(value, ty.name, sch)

FirstMissingRecord(value, name, sch) ==
    IF ~HasMissingRecord(value, name, sch) THEN None
    ELSE LET fields  == sch.schemas[name].fields
             bad(i)  == \/ ~HasKey(value, fields[i].name)
                        \/ HasMissingValue(ValueOf(value, fields[i].name), fields[i].ty, sch)
             i       == CHOOSE k \in 1..Len(fields) : bad(k) /\ \A j \in 1..(k - 1) : ~bad(j)
         IN  IF ~HasKey(value, fields[i].name)
                 THEN Some([msg |-> "Missing field", field |-> fields[i].name,
                            schema |-> name, value |-> value])
             ELSE FirstMissingValue(ValueOf(value, fields[i].name), fields[i].ty, sch)

RECURSIVE WellKindedRecord(_, _, _)
RECURSIVE WellKindedValue(_, _, _)
\* every part of the value that is present has the kind its declared type asks
\* for: nothing but a missing key can make the encoding fail
WellKindedValue(value, ty, sch) ==
    IF ty.type = "Primitive" THEN parse_primitive(value, ty.name).ok
    ELSE IF ty.type \in {"Array", "Span"}
        THEN value.t = "Array"
             /\ \A i \in 1..Len(value.a) : WellKindedValue(value.a[i], ty.item_type, sch)
    ELSE WellKindedRecord(value, ty.name, sch)

WellKindedRecord(value, name, sch) ==
    /\ name \in DOMAIN sch.schemas
    /\ \A i \in 1..Len(sch.schemas[name].fields) :
          LET f == sch.schemas[name].fields[i]
          IN  HasKey(value, f.name) => WellKindedValue(ValueOf(value, f.name), f.ty, sch)

RECURSIVE StripRecord(_, _, _)
RECURSIVE StripValue(_, _, _)
\* the value without the keys that the schema does not declare
StripValue(value, ty, sch) ==
    IF ty.type = "Primitive" THEN value
    ELSE IF ty.type \in {"Array", "Span"}
        THEN IF value.t = "Array"
             THEN JArray([i \in 1..Len(value.a) |-> StripValue(value.a[i], ty.item_type, sch)])
             ELSE value
    ELSE StripRecord(value, ty.name, sch)

StripRecord(value, name, sch) ==
    IF value.t # "Object" \/ name \notin DOMAIN sch.schemas THEN value
    ELSE LET def     == sch.schemas[name]
             Keep(e) == e.k \in FieldNames(def)
             kept    == SelectSeq(value.kv, Keep)
         IN  JObject([i \in 1..Len(kept) |->
                         KV(kept[i].k, StripValue(kept[i].v, FieldType(def, kept[i].k), sch))])

\* a document that differs from the given one only in undeclared keys and is
\* not the empty object: the stripped document, with one undeclared key when the
\* stripped document is empty
CanonicalDocument(value, sch) ==
    LET stripped == StripRecord(value, sch.cairo_input, sch)
    IN  IF stripped = JObject(<<>>) THEN JObject(<<KV("unknown", JNull)>>) ELSE stripped

\* an error without the JSON text that a missing-field message quotes
ErrorSansValue(e) ==
    IF e.msg = "Missing field" THEN [msg |-> e.msg, field |-> e.field, schema |-> e.schema]
    ELSE e

RECURSIVE SwapArraySpanType(_)
\* the type with Array and Span exchanged
SwapArraySpanType(ty) ==
    IF ty.type = "Array" THEN SpanOf(SwapArraySpanType(ty.item_type))
    ELSE IF ty.type = "Span" THEN ArrayOf(SwapArraySpanType(ty.item_type))
    ELSE ty

\* the schema with Array and Span exchanged in every field
SwapArraySpan(sch) ==
    [sch EXCEPT !.schemas =
        [n \in DOMAIN sch.schemas |->
            SchemaDef([i \in 1..Len(sch.schemas[n].fields) |->
                          Field(sch.schemas[n].fields[i].name,
                                SwapArraySpanType(sch.schemas[n].fields[i].ty))])]]

\* the call was made on a document that holds the key "request", under the
\* schema whose root record is {request: ty}
DoneOnRequest(ty) ==
    /\ DoneOnDocument
    /\ schema = RequestSchema(ty)
    /\ HasKey(json_str.value, "request")

Request == ValueOf(json_str.value, "request")

(***************************************************************************)
(* Properties                                                              *)
(***************************************************************************)

\* C1: process_json_args on the empty object {} returns the empty argument list
\* (no block at all), whatever the schema: also when the input root record has
\* required fields and when the input root names no record.
C1_EmptyObjectNoArgs ==
    (DoneOnDocument /\ json_str.value = JObject(<<>>)) => result = Ok(<<>>)

\* {} was encoded under a schema whose input root names no record
C1_Witness ==
    /\ DoneOnDocument
    /\ json_str.value = JObject(<<>>)
    /\ schema.cairo_input \notin DOMAIN schema.schemas
    /\ result.ok /\ Len(result.val) = 0

\* C2: a document other than {} that encodes successfully yields exactly one
\* FuncArg::Array block; its content is the concatenation of the encodings of the
\* root record's fields in declaration order, nested struct fields spliced in
\* place; and the same document with its object keys in another order yields the
\* same result.
C2_OneBlockInDeclarationOrder ==
    (DoneOnDocument /\ result.ok /\ json_str.value # JObject(<<>>)) =>
        /\ Len(result.val) = 1
        /\ result.val[1].kind = "Array"
        /\ result.val[1].vals = RefRecord(json_str.value, schema.cairo_input, schema)
        /\ process_json_args([json_str EXCEPT !.value = ReverseKeys(@)], schema) = result

\* the nested record of test_complex, encoded from a document whose keys are
\* not in declaration order
C2_Witness ==
    /\ DoneOnDocument /\ result.ok
    /\ schema = RequestSchema(StructRef("MyStruct"))
    /\ Len(result.val) = 1
    /\ Len(result.val[1].vals) = 9
    /\ json_str.value.kv[1].k = "request"
    /\ json_str.value.kv[1].v.kv[1].k = "o"
    /\ json_str.value.kv[1].v.kv[1].v.kv[1].k = "z"

\* C3 as stated: whenever a record paired with a part of the document declares
\* a field that the part has no key for, the result is the missing-field error
\* naming a missing field and its record.
C3_Claim_MissingFieldAlwaysReported ==
    (DoneOnDocument /\ HasMissingRecord(json_str.value, schema.cairo_input, schema)) =>
        /\ ~result.ok
        /\ result.err.msg = "Missing field"

\* C3 (amended): when the document is not {} and some record paired with a part of
\* it declares a field that the part has no key for, the result is an error (no
\* argument list); an error of the missing-field kind names the first missing
\* field in walk order together with its enclosing record and quotes the JSON
\* value; and the error is of that kind when nothing else in the document fails.
C3_MissingFieldNamed ==
    (/\ DoneOnDocument
     /\ json_str.value # JObject(<<>>)
     /\ HasMissingRecord(json_str.value, schema.cairo_input, schema)) =>
        /\ ~result.ok
        /\ result.err.msg = "Missing field" =>
              result.err = FirstMissingRecord(json_str.value, schema.cairo_input, schema).v
        /\ WellKindedRecord(json_str.value, schema.cairo_input, schema) =>
              result.err.msg = "Missing field"

\* a field of a nested record is missing and the error names it and that record
C3_Witness ==
    /\ DoneOnDocument
    /\ schema = RequestSchema(StructRef("MyStruct"))
    /\ ~result.ok
    /\ result.err.msg = "Missing field"
    /\ result.err.field = "z"
    /\ result.err.schema = "Nest"

\* C4 as stated: a document and the same document without its undeclared keys
\* give the same outcome.
C4_Claim_UndeclaredKeysNeverMatter ==
    DoneOnDocument =>
        process_json_args(
            [json_str EXCEPT !.value = StripRecord(@, schema.cairo_input, schema)],
            schema) = result

\* C4 (amended): two documents, neither the empty object, that differ only in keys
\* the schema does not declare give the same argument list or the same error, up
\* to the JSON text that a missing-field message quotes.  Each document is compared
\* with the canonical document of its class.
C4_UndeclaredKeysIgnored ==
    (DoneOnDocument /\ json_str.value # JObject(<<>>)) =>
        LET other == process_json_args(
                         [json_str EXCEPT !.value = CanonicalDocument(@, schema)], schema)
        IN  /\ other.ok = result.ok
            /\ result.ok => other = result
            /\ ~result.ok => ErrorSansValue(other.err) = ErrorSansValue(result.err)

\* undeclared keys at the root and inside a nested struct value, encoded
C4_Witness ==
    /\ DoneOnDocument /\ result.ok
    /\ schema = RequestSchema(StructRef("Nest"))
    /\ HasKey(json_str.value, "unknown")
    /\ HasKey(json_str.value, "request")
    /\ HasKey(Request, "extra")
    /\ Len(result.val) = 1

\* C5: an Array or Span field requires a JSON array (anything else is the error
\* "Expected array"); it emits the number of JSON elements, then the encodings of
\* the elements in order; and Array and Span of the same item type encode alike.
C5_ArrayCountPrefixed ==
    /\ DoneOnDocument =>
          process_json_args(json_str, SwapArraySpan(schema)) = result
    /\ \A item \in ItemTypes : \A ty \in {ArrayOf(item), SpanOf(item)} :
          DoneOnRequest(ty) =>
              IF Request.t # "Array" THEN result = Err([msg |-> "Expected array"])
              ELSE LET items == [i \in 1..Len(Request.a) |->
                                    parse_value(Request.a[i], item, schema)]
                   IN  IF \A i \in 1..Len(items) : items[i].ok
                       THEN result = OkBlock(<<IntToBytes(Len(Request.a))>>
                                             \o Flatten([i \in 1..Len(items) |-> items[i].val]))
                       ELSE ~result.ok

\* [[1, 2], [1]] as an array of arrays: the count is 2, five more elements follow
C5_Witness ==
    /\ DoneOnRequest(ArrayOf(ArrayOf(Primitive("u32"))))
    /\ Request = JArray(<<IntArray(2), IntArray(1)>>)
    /\ result = OkBlock(<<<<2>>, <<2>>, <<1>>, <<2>>, <<1>>, <<1>>>>)

\* the string is one or more decimal digits after an optional leading '-'
PlainDecimal(s) ==
    LET digits == IF s # <<>> /\ s[1] = 45 THEN Tail(s) ELSE s
    IN  digits # <<>> /\ \A i \in 1..Len(digits) : is_digit(digits[i])

\* the string is 0x followed by one or more hexadecimal digits
PlainHex(s) ==
    /\ Len(s) > 2
    /\ starts_with_0x(s)
    /\ \A i \in 3..Len(s) : HexVal(s[i]) \in 0..15

RECURSIVE DigitsValue(_, _)
\* the number that a short string of digits denotes in the base
DigitsValue(digits, base) ==
    IF digits = <<>> THEN 0
    ELSE DigitsValue(SubSeq(digits, 1, Len(digits) - 1), base) * base
         + HexVal(digits[Len(digits)])

\* the field element of a signed integer: a negative one is the field negation
SignedFelt(neg, mag) == IF neg THEN FeltNeg(mag) ELSE mag

\* C6 as stated, on strings of at most 31 bytes: a felt252 field encodes a plain
\* decimal integer (digits after an optional '-') and a 0x-prefixed hexadecimal
\* number as that number, and every other string, without error, as the
\* big-endian integer of its bytes.
C6_Claim_EveryStringEncodes ==
    (/\ DoneOnRequest(Primitive("felt252"))
     /\ Request.t = "String"
     /\ Len(Request.s) <= 31) =>
        LET s == Request.s
        IN  IF PlainDecimal(s)
                THEN LET neg == s[1] = 45
                     IN  result = OkBlock(<<SignedFelt(neg,
                             IntToBytes(DigitsValue(IF neg THEN Tail(s) ELSE s, 10)))>>)
            ELSE IF starts_with_0x(s)
                THEN PlainHex(s) =>
                         result = OkBlock(<<IntToBytes(DigitsValue(SubSeq(s, 3, Len(s)), 16))>>)
            ELSE result = OkBlock(<<Norm(s)>>)

\* C7: a ByteArray field given a string of n bytes emits floor(n / 31), then that
\* many words of 31 consecutive bytes each, then the pending word holding the
\* remaining n mod 31 bytes, then n mod 31: floor(n / 31) + 3 elements, the last
\* two zero when n is a multiple of 31.
C7_ByteArrayLayout ==
    (DoneOnRequest(Primitive("ByteArray")) /\ Request.t = "String") =>
        LET s     == Request.s
            n     == Len(s)
            words == n \div 31
        IN  /\ result.ok
            /\ Len(result.val) = 1
            /\ result.val[1].kind = "Array"
            /\ LET vals == result.val[1].vals
               IN  /\ Len(vals) = words + 3
                   /\ vals[1] = IntToBytes(words)
                   /\ \A i \in 1..words :
                         vals[i + 1] = Norm(SubSeq(s, 31 * (i - 1) + 1, 31 * i))
                   /\ vals[words + 2] = Norm(SubSeq(s, 31 * words + 1, n))
                   /\ vals[words + 3] = IntToBytes(n % 31)
                   /\ n % 31 < 31
                   /\ n % 31 = 0 => vals[words + 2] = <<>> /\ vals[words + 3] = <<>>

\* a string of 62 bytes: two words, pending word and pending length both zero
C7_Witness ==
    /\ DoneOnRequest(Primitive("ByteArray"))
    /\ Request.t = "String"
    /\ Len(Request.s) = 62
    /\ result.ok
    /\ Len(result.val[1].vals) = 5
    /\ result.val[1].vals[1] = <<2>>
    /\ result.val[1].vals[4] = <<>>
    /\ result.val[1].vals[5] = <<>>

\* the JSON number as sign, magnitude and binary exponent
NumberOf(value) ==
    IF value.n = "Float" THEN [neg |-> value.neg, mag |-> value.mag, e |-> value.e]
    ELSE [neg |-> value.n = "NegInt", mag |-> value.mag, e |-> 0]

\* C8 as stated: an F64 field given the JSON number r emits round(r * 2^32) as a
\* signed integer, a negative one as its field negation.
C8_Claim_Rounds ==
    (DoneOnRequest(Primitive("F64")) /\ Request.t = "Number") =>
        LET r == NumberOf(Request)
            k == r.e + 32
            m == BytesToInt(r.mag)
            rounded ==
                IF k >= 0 THEN ShiftLeft(r.mag, k)
                ELSE IntToBytes(CHOOSE q \in 0..(m + 1) :
                        /\ 2 * q * Pow2(0 - k) <= 2 * m + Pow2(0 - k)
                        /\ 2 * m + Pow2(0 - k) < 2 * (q + 1) * Pow2(0 - k))
        IN  result = OkBlock(<<SignedFelt(r.neg, rounded)>>)

\* C8 (amended): an F64 field given the JSON number r emits r * 2^32 truncated
\* toward zero and clamped to [-2^63, 2^63 - 1], as a signed integer, a negative
\* one as its field negation.
C8_TruncatesAndSaturates ==
    (DoneOnRequest(Primitive("F64")) /\ Request.t = "Number") =>
        LET r == NumberOf(Request)
            k == r.e + 32
            m == BytesToInt(r.mag)
            truncated ==
                IF k >= 0 THEN ShiftLeft(r.mag, k)
                ELSE IntToBytes(CHOOSE q \in 0..m :
                        q * Pow2(0 - k) <= m /\ m < (q + 1) * Pow2(0 - k))
            clamped ==
                IF BigLess(truncated, TWO63) THEN truncated
                ELSE IF r.neg THEN TWO63
                ELSE I64_MAX
        IN  result = OkBlock(<<SignedFelt(r.neg, clamped)>>)

\* 7 * 2^-34 scaled by 2^32 is 1.75 and is emitted as 1
C8_Witness ==
    /\ DoneOnRequest(Primitive("F64"))
    /\ Request = JFloat(FALSE, <<7>>, 0 - 34)
    /\ result = OkBlock(<< <<1>> >>)

C10_Claim_EveryIntegerAccepted ==
    \A p \in {"i8", "i16", "i32", "i64"} :
        DoneOnRequest(Primitive(p)) =>
            IF Request.t = "Number" /\ Request.n \in {"PosInt", "NegInt"}
                THEN result = OkBlock(<<SignedFelt(Request.n = "NegInt", Request.mag)>>)
            ELSE result = Err([msg |-> "Expected signed integer for", name |-> p])

\* C10 (amended): an i8, i16, i32 or i64 field accepts exactly the integer JSON
\* values in [-2^63, 2^63 - 1], whatever the declared width, a negative one
\* emitted as the field negation of its magnitude; every other JSON value, an
\* integer from 2^63 on included, is the type-mismatch error naming the primitive.
C10_SignedWithinI64 ==
    \A p \in {"i8", "i16", "i32", "i64"} :
        DoneOnRequest(Primitive(p)) =>
            IF /\ Request.t = "Number"
               /\ \/ Request.n = "NegInt"
                  \/ /\ Request.n = "PosInt"
                     /\ \/ Len(Request.mag) < 8
                        \/ Len(Request.mag) = 8 /\ Request.mag[1] < 128
                THEN result = OkBlock(<<SignedFelt(Request.n = "NegInt", Request.mag)>>)
            ELSE result = Err([msg |-> "Expected signed integer for", name |-> p])

\* -42 in an i32 field is emitted as PRIME - 42
C10_Witness ==
    /\ DoneOnRequest(Primitive("i32"))
    /\ Request = JNegInt(<<42>>)
    /\ result = OkBlock(<< <<8, 0, 0, 0, 0, 0, 0, 16>> \o [i \in 1..23 |-> 255] \o <<215>> >>)

\* C11: a Primitive field whose name is none of the twelve known names is the
\* unknown-primitive error carrying that name, whatever JSON value the field has.
C11_UnknownPrimitive ==
    \A ty \in RequestTypes :
        (/\ ty.type = "Primitive"
         /\ ty.name \notin {"u8", "u16", "u32", "u64", "i8", "i16", "i32", "i64",
                            "F64", "felt252", "ByteArray", "bool"}
         /\ DoneOnRequest(ty)) =>
            result = Err([msg |-> "Unknown primitive type", name |-> ty.name])

\* a string, which a felt252 field would accept, under the primitive name u128
C11_Witness ==
    /\ DoneOnRequest(Primitive("u128"))
    /\ Request = JString(<<52, 50>>)
    /\ result = Err([msg |-> "Unknown primitive type", name |-> "u128"])

\* the kinds of error that process_json_args returns
ENCODER_ERRORS ==
    {"Failed to parse JSON", "Schema not found", "Missing field",
     "Expected unsigned integer for", "Expected signed integer for", "Expected float for",
     "Expected a string", "Expected string for ByteArray", "Expected boolean value",
     "Expected array", "FromStrError", "Unknown primitive type", "Error parsing ByteArray"}

RoundTripped(p) ==
    /\ pc \in {"decoded", "aborted"}
    /\ json_str.valid
    /\ schema = RequestSchema(Primitive(p))

\* the value that a decoded 0x string denotes
HexValue(s) == HexDigits(SubSeq(s, 3, Len(s)))

\* the field element that the text of a felt252 request denotes: a decimal or
\* hexadecimal number modulo the prime, every other text by its bytes
DenotedFelt(s) ==
    IF PlainDecimal(s)
        THEN LET neg == s[1] = 45
                 mag == IntToBytes(DigitsValue(IF neg THEN Tail(s) ELSE s, 10))
             IN  IF neg /\ mag # <<>> THEN FeltNeg(mag) ELSE mag
    ELSE IF PlainHex(s) THEN FeltReduce(HexValue(s))
    ELSE FeltReduce(Norm(s))

\* |a * 2^ea - b * 2^eb| < 2^k for magnitudes of one sign
CloserThanPow2(a, ea, b, eb, k) ==
    LET low == IF ea < eb THEN (IF ea < k THEN ea ELSE k) ELSE (IF eb < k THEN eb ELSE k)
        x   == ShiftLeft(a, ea - low)
        y   == ShiftLeft(b, eb - low)
        d   == IF BigLess(x, y) THEN BigSub(y, x) ELSE BigSub(x, y)
    IN  BigLess(d, ShiftLeft(<<1>>, k - low))

\* a * 2^ea = b * 2^eb
SameMagnitude(a, ea, b, eb) ==
    LET low == IF ea < eb THEN ea ELSE eb
    IN  ShiftLeft(a, ea - low) = ShiftLeft(b, eb - low)

\* the decoded number is within 2^-32 of the request
WithinResolution(decoded, request) ==
    LET r == NumberOf(request)
    IN  /\ decoded.t = "Number"
        /\ decoded.n = "Float"
        /\ decoded.mag = <<>> \/ decoded.neg = r.neg
        /\ CloserThanPow2(decoded.mag, decoded.e, r.mag, r.e, 0 - FRAC_BITS)

\* the request lies in the range of the fixed-point form: |r| <= 2^31
InFixedPointRange(request) ==
    LET r == NumberOf(request)
    IN  ~BigLess(ShiftLeft(<<1>>, 31 + 34), ShiftLeft(r.mag, r.e + 34))

\* the text decoded for an integer, a boolean or a field element is the request
ExactRoundTrip(p) ==
    /\ output.t = "text"
    /\ p \in UNSIGNED_NAMES \cup SIGNED_NAMES \cup {"bool"} => output.json = Request
    /\ p = "felt252" =>
          /\ output.json.t = "String"
          /\ PlainHex(output.json.s)
          /\ HexValue(output.json.s) = result.val[1].vals[1]
          /\ Len(Request.s) <= 31 => HexValue(output.json.s) = DenotedFelt(Request.s)

\* C13: a scalar that was encoded and whose field element is decoded by the
\* matching scalar case comes back: unsigned and signed integers and booleans as
\* the same JSON value, a field element as a 0x string of the same numeric value,
\* a fixed-point decimal r with |r| <= 2^31 as a number within 2^-32 of r; a
\* decimal of larger magnitude comes back as 2^31 with the sign of r.
C13_ScalarRoundTrip ==
    /\ \A p \in SCALAR_NAMES \ {"F64"} : RoundTripped(p) => ExactRoundTrip(p)
    /\ RoundTripped("F64") =>
          /\ output.t = "text"
          /\ InFixedPointRange(Request) => WithinResolution(output.json, Request)
          /\ ~InFixedPointRange(Request) =>
                /\ output.json.t = "Number"
                /\ output.json.n = "Float"
                /\ output.json.neg = NumberOf(Request).neg
                /\ SameMagnitude(output.json.mag, output.json.e, <<1>>, 31)

\* the decimal -3 * 2^-34, below the resolution, has made the round trip
C13_Witness ==
    /\ RoundTripped("F64")
    /\ Request = JFloat(TRUE, <<3>>, 0 - 34)
    /\ output.t = "text"
    /\ output.json.mag = <<>>

\* C13 as stated: every fixed-point decimal comes back within 2^-32, and the
\* other scalars exactly.
C13_Claim_RoundTripAlways ==
    /\ \A p \in SCALAR_NAMES \ {"F64"} : RoundTripped(p) => ExactRoundTrip(p)
    /\ RoundTripped("F64") =>
          /\ output.t = "text"
          /\ WithinResolution(output.json, Request)

\* serialize_output has ended on the return type
DecodedAs(ty) == pc \in {"decoded", "aborted"} /\ return_type_id = Some(ty)

\* the stream starts with an enum tag that selects a variant of the enum type
SelectsVariant(ty) ==
    /\ return_values # <<>>
    /\ ~return_values[1].rel
    /\ Len(return_values[1].felt) <= 1
    /\ variant_idx(Len(sierra_program_registry[ty].variants), BytesToInt(return_values[1].felt))
          \in 0..(Len(sierra_program_registry[ty].variants) - 1)

\* the type of the variant that the tag selects
SelectedVariant(ty) ==
    LET variants == sierra_program_registry[ty].variants
    IN  variants[variant_idx(Len(variants), BytesToInt(return_values[1].felt)) + 1]

\* the enum types that are neither core::bool nor a PanicResult
PADDED_ENUMS == {"OptionU32", "Shape"}

\* C14: decoding an enum that is neither bool nor PanicResult, whose selected
\* variant has size s and whose largest variant has size m, takes the m - s
\* elements after the tag as padding: when they are all the integer 0 the outcome
\* is that of decoding the selected variant on the elements after them, and when
\* one of them is non-zero, a pointer or missing the decode aborts with
\* "Malformed enum" and returns no text.
C14_EnumPadding ==
    \A ty \in PADDED_ENUMS :
        (DecodedAs(ty) /\ SelectsVariant(ty)) =>
            LET after   == Tail(return_values)
                padding == max_variant_size(sierra_program_registry[ty].variants)
                             - type_sizes[SelectedVariant(ty)]
            IN  IF /\ Len(after) >= padding
                   /\ \A i \in 1..padding : after[i] = MaybeRelocatable_Int(<<>>)
                THEN output = serialize_output(SubSeq(after, padding + 1, Len(after)), vm,
                                               Some(SelectedVariant(ty)), schema,
                                               preserve_order)
                ELSE output = Panic("Malformed enum")

\* the u32 variant of an enum whose largest variant has two elements: tag 2, one
\* zero of padding, then the payload 42
C14_Witness ==
    /\ DecodedAs("Shape")
    /\ return_values = IntCells(<<2, 0, 42>>)
    /\ output = Text(JPosInt(<<42>>))

\* the stream starts with a small integer, read as the enum tag
StartsWithTag ==
    /\ return_values # <<>>
    /\ ~return_values[1].rel
    /\ Len(return_values[1].felt) <= 1

\* the declared variant index of the tag: num_variants - 1 - (tag >> 1) for more
\* than two variants, the tag otherwise
DeclaredIndex(num_variants, tag) ==
    IF num_variants > 2 THEN num_variants - 1 - (tag \div 2) ELSE tag

\* C15: the decoder maps the tag read from the stream to the declared variant
\* index num_variants - 1 - (tag >> 1) when the enum has more than two variants
\* and to the tag itself otherwise; the payload after the padding is decoded
\* against the type of that variant (for core::bool the index is the value), and
\* an index outside the variants aborts the decode.
C15_VariantIndex ==
    /\ \A ty \in PADDED_ENUMS :
          (DecodedAs(ty) /\ StartsWithTag) =>
              LET variants == sierra_program_registry[ty].variants
                  index    == DeclaredIndex(Len(variants), BytesToInt(return_values[1].felt))
              IN  IF index \notin 0..(Len(variants) - 1) THEN output.t = "panic"
                  ELSE LET padding == max_variant_size(variants) - type_sizes[variants[index + 1]]
                           payload == SubSeq(return_values, padding + 2, Len(return_values))
                       IN  \/ output = Panic("Malformed enum")
                           \/ output = serialize_output(payload, vm, Some(variants[index + 1]),
                                                        schema, preserve_order)
    /\ (DecodedAs("bool") /\ StartsWithTag) =>
          LET index == DeclaredIndex(2, BytesToInt(return_values[1].felt))
          IN  IF index \in 0..1 THEN output = Text(JBool(index # 0)) ELSE output.t = "panic"

\* tag 4 of an enum with three variants selects the first declared variant, the
\* unit, after two elements of padding
C15_Witness ==
    /\ DecodedAs("Shape")
    /\ return_values = IntCells(<<4, 0, 0>>)
    /\ output = Text(JObject(<<>>))

\* the number of cells of the VM's segment
SegmentSize(s) == IF s + 1 \in DOMAIN vm.segments THEN Len(vm.segments[s + 1]) ELSE 0

\* the stream starts with n pointers
StartsWithPointers(n) ==
    /\ Len(return_values) >= n
    /\ \A i \in 1..n : return_values[i].rel

\* C16: a live dictionary whose pointer's offset is not a multiple of 3 or is not
\* the size of the pointer's segment, and a squashed dictionary whose end - start
\* is not a multiple of 3, abort the decode with the fatal invalid-dictionary
\* condition; a dictionary that passes the check does not, and only such a
\* dictionary is decoded to text.
C16_DictionaryValidity ==
    /\ (DecodedAs("DictU32") /\ StartsWithPointers(1)) =>
          LET dict_ptr == return_values[1]
              valid    == /\ dict_ptr.offset % 3 = 0
                          /\ dict_ptr.offset = SegmentSize(dict_ptr.segment_index)
          IN  /\ output = Panic("Return value is not a valid Felt252Dict") <=> ~valid
              /\ output.t = "text" => valid
    /\ (/\ DecodedAs("SquashedU32")
        /\ StartsWithPointers(2)
        /\ return_values[1].segment_index = return_values[2].segment_index
        /\ return_values[1].offset <= return_values[2].offset) =>
          LET valid == (return_values[2].offset - return_values[1].offset) % 3 = 0
          IN  /\ output = Panic("Return value is not a valid SquashedFelt252Dict") <=> ~valid
              /\ output.t = "text" => valid

\* a live dictionary whose pointer is at the end of a segment of four cells
C16_Witness ==
    /\ DecodedAs("DictU32")
    /\ return_values = <<RelocatableValue(2, 4)>>
    /\ SegmentSize(2) = 4
    /\ output = Panic("Return value is not a valid Felt252Dict")

\* the struct types that are decoded as generic structs
GENERIC_STRUCTS == {"OutputT", "PairT", "OuterT", "ListT"}

\* the fields of the record that the output root names
RootFields == schema.schemas[schema.cairo_output].fields

\* C17 as stated: a generic struct decoded under the output root's record gives a
\* JSON object with one entry per member, the Nth entry keyed by the Nth field of
\* the record (the order of the entries is looked at where JSON objects keep the
\* order of insertion); the root {value: u32} with the stream [42] gives
\* {"value": 42}.
C17_Claim_OneEntryPerMember ==
    /\ \A ty \in GENERIC_STRUCTS :
          (/\ DecodedAs(ty)
           /\ schema.cairo_output \in DOMAIN schema.schemas
           /\ output.t = "text") =>
              LET members == sierra_program_registry[ty].members
                  entries == output.json.kv
              IN  /\ output.json.t = "Object"
                  /\ Len(entries) = Len(members)
                  /\ \A i \in 1..Len(entries) :
                        /\ i <= Len(RootFields)
                        /\ \E j \in 1..Len(entries) : entries[j].k = RootFields[i].name
                        /\ preserve_order => entries[i].k = RootFields[i].name
    /\ (/\ DecodedAs("OutputT")
        /\ schema.cairo_output = "Output"
        /\ return_values = IntCells(<<42>>)) =>
          output = Text(JObject(<<KV("value", JPosInt(<<42>>))>>))

\* the keys of a JSON object
KeysOf(object) == { object.kv[i].k : i \in 1..Len(object.kv) }

\* the value is a JSON object keyed by the field names of the schema's record
KeyedByRecord(value, record) ==
    /\ value.t = "Object"
    /\ KeysOf(value) = FieldNames(schema.schemas[record])

\* C18 as stated: a generic struct nested in the decoded output is keyed by the
\* field names of the record that the schema declares for it, when it is reached
\* through a Struct field (zeta: Inner of Outer) and when it is an element of an
\* Array-of-Struct field (items: Array of Item of List).
C18_Claim_NestedKeyedByDeclaredRecord ==
    /\ (DecodedAs("OuterT") /\ schema.cairo_output = "Outer" /\ output.t = "text") =>
          /\ KeyedByRecord(output.json, "Outer")
          /\ KeyedByRecord(ValueOf(output.json, "zeta"), "Inner")
    /\ (DecodedAs("ListT") /\ schema.cairo_output = "List" /\ output.t = "text") =>
          /\ KeyedByRecord(output.json, "List")
          /\ LET items == ValueOf(output.json, "items")
             IN  /\ items.t = "Array"
                 /\ \A i \in 1..Len(items.a) : KeyedByRecord(items.a[i], "Item")

\* C19 as stated: a call of serialize_output ends with a JSON text or with a
\* fatal abort; it never enters an array loop whose iterations leave the
\* iterator where it is.
C19_Claim_Terminates == pc # "returned" => pc \in {"decoded", "aborted"}

\* the types read from the stream as one integer (enums: their tag)
INTEGER_TYPES ==
    {"felt252", "bytes31", "BoundedInt", "u8", "u16", "u32", "u64", "u128", "i8", "i16",
     "i32", "i64", "i128", "NonZeroU32", "F64", "bool", "Bool3", "BoolWide", "BoolUnsized",
     "OptionU32", "Shape", "PanicResult"}

\* the types read from the stream as pointers
POINTER_TYPES ==
    {"ArrayU32", "ArrayI32", "ArrayFelt", "ArrayBytes31", "ArrayPairT", "SnapArrayI32",
     "SpanI32", "BoxU32", "BoxPairT", "DictU32", "SquashedU32"}

\* the types that take at least one element from the stream, whatever the schema
VALUE_TYPES == INTEGER_TYPES \cup POINTER_TYPES \cup {"NullableU32", "GasBuiltin", "ByteArray"}

\* type ids without a decoder case: kinds outside the match, and an id that the
\* registry does not declare
UNHANDLED_TYPES == {"Const", "RangeCheck", "Undeclared"}

\* the stream is desynchronized from the return type at its first element
Desynchronized(ty) ==
    \/ ty \in VALUE_TYPES /\ return_values = <<>>
    \/ ty \in INTEGER_TYPES /\ return_values # <<>> /\ return_values[1].rel
    \/ ty \in POINTER_TYPES /\ return_values # <<>> /\ ~return_values[1].rel
    \/ ty \in UNHANDLED_TYPES

\* C20 as stated: when an expected value is missing from the stream, a pointer
\* stands where a scalar is expected or a scalar where a pointer is expected, or
\* the type has no decoder case, the decode aborts and serialize_output returns
\* no JSON text.
C20_Claim_DesyncAborts ==
    \A ty \in VALUE_TYPES \cup UNHANDLED_TYPES :
        (DecodedAs(ty) /\ Desynchronized(ty)) => pc = "aborted" /\ output.t = "panic"

\* the stream of a ByteArray has its shape: the data array is a range of
\* integers in memory, the pending word and its length are integers
ByteArrayShaped ==
    /\ Len(return_values) = 4
    /\ return_values[1].rel /\ return_values[2].rel
    /\ return_values[1].segment_index = return_values[2].segment_index
    /\ return_values[1].offset <= return_values[2].offset
    /\ return_values[2].offset <= SegmentSize(return_values[2].segment_index)
    /\ \A o \in return_values[1].offset..(return_values[2].offset - 1) :
          ~vm.segments[return_values[1].segment_index + 1][o + 1].rel
    /\ ~return_values[3].rel /\ ~return_values[4].rel

\* C21 as stated: a ByteArray whose three members are read never aborts the
\* decode because of its content; the outcome is a text, the reconstructed
\* string when the bytes are valid UTF-8 and JSON null otherwise (also for a data
\* word that does not fit in 31 bytes and for an inconsistent pending length).
C21_Claim_ByteArrayNeverAborts ==
    (DecodedAs("ByteArray") /\ ByteArrayShaped) =>
        /\ output.t = "text"
        /\ output.json.t \in {"String", "Null"}
        /\ output.json.t = "String" => utf8_from(output.json.s, 1)

\* C22 as stated, for the decoder: a generic struct decoded under an output root
\* that names no record of the schema does not end in a panic (the missing
\* record is reported as a recoverable condition).
C22_Claim_SchemaNotFoundNeverPanics ==
    \A ty \in GENERIC_STRUCTS :
        (DecodedAs(ty) /\ schema.cairo_output \notin DOMAIN schema.schemas) =>
            output.t # "panic"

\* the request types with a Struct reference to the undeclared record Ghost
DANGLING_ARRAYS == {ArrayOf(StructRef("Ghost")), SpanOf(StructRef("Ghost"))}

\* the error of a record name that the schema does not declare
SchemaNotFound(name) == Err([msg |-> "Schema not found", name |-> name])

\* C23: a schema with a Struct reference to an undeclared record is a schema the
\* encoder is called with; the error shows only when the encode reaches the
\* reference: {} encodes to the empty argument list, an empty JSON array for an
\* Array/Span of the dangling Struct encodes to its count 0, while a non-empty
\* array and any value for a field of the dangling Struct type fail with
\* schema-not-found naming the record.
C23_LazySchemaResolution ==
    /\ \A ty \in DANGLING_ARRAYS \cup {StructRef("Ghost")} :
          (DoneOnDocument /\ schema = RequestSchema(ty) /\ json_str.value = JObject(<<>>)) =>
              result = Ok(<<>>)
    /\ \A ty \in DANGLING_ARRAYS :
          (DoneOnRequest(ty) /\ Request.t = "Array") =>
              IF Request.a = <<>> THEN result = OkBlock(<<FeltFromUsize(0)>>)
              ELSE result = SchemaNotFound("Ghost")
    /\ DoneOnRequest(StructRef("Ghost")) => result = SchemaNotFound("Ghost")

\* an empty array was encoded for an Array whose item type is the dangling Struct
C23_Witness ==
    /\ DoneOnRequest(ArrayOf(StructRef("Ghost")))
    /\ Request = JArray(<<>>)
    /\ result.ok

\* the enums named core::bool that do not have the shape of a boolean: three
\* variants, a variant of size one, a variant without a size
MALFORMED_BOOLS == {"Bool3", "BoolWide", "BoolUnsized"}

\* C24: an enum whose user type is core::bool, with two variants of size zero,
\* decodes tag 0 to false and tag 1 to true and takes only the tag from the
\* stream; any other tag aborts the decode, and so does every decode of a
\* core::bool enum with three variants, with a variant of non-zero size or with a
\* variant whose size is unknown.
C24_BoolEnum ==
    /\ (DecodedAs("bool") /\ StartsWithTag) =>
          LET tag == BytesToInt(return_values[1].felt)
          IN  IF tag \in {0, 1}
              THEN /\ output = Text(JBool(tag = 1))
                   /\ serialize_output_inner(return_values, vm, "bool", schema,
                                             schema.cairo_output, preserve_order)
                        = Value(JBool(tag = 1), Tail(return_values))
              ELSE pc = "aborted" /\ output.t = "panic"
    /\ \A ty \in MALFORMED_BOOLS : DecodedAs(ty) => pc = "aborted" /\ output.t = "panic"

\* a core::bool enum whose second variant has size one was given the tag 1
C24_Witness ==
    /\ DecodedAs("BoolWide")
    /\ return_values = IntCells(<<1, 0>>)
    /\ output = Panic("Malformed bool enum")

\* the cells of the range of the given size at the pointer are all in memory
RangeInMemory(ptr, size) ==
    /\ ptr.segment_index + 1 \in DOMAIN vm.segments
    /\ ptr.offset + size <= Len(vm.segments[ptr.segment_index + 1])

\* the outcome is that of decoding the inner type on the range of its size at
\* the pointer, an abort when the range is not in memory
Dereferenced(ptr, inner) ==
    IF RangeInMemory(ptr, type_sizes[inner])
    THEN output = serialize_output(
                      SubSeq(vm.segments[ptr.segment_index + 1], ptr.offset + 1,
                             ptr.offset + type_sizes[inner]),
                      vm, Some(inner), schema, preserve_order)
    ELSE pc = "aborted" /\ output.t = "panic"

\* C25: a Nullable takes one element of the stream: the integer 0 decodes to
\* null, a pointer is dereferenced to a range of the inner type's size that is
\* decoded as the inner type, any other integer aborts the decode; a Box takes
\* one element, which must be a pointer and is dereferenced the same way.
C25_NullableAndBox ==
    /\ (DecodedAs("NullableU32") /\ return_values # <<>>) =>
          LET head == return_values[1]
          IN  IF head.rel THEN Dereferenced(head, "u32")
              ELSE IF head.felt = <<>>
                  THEN /\ output = Text(JNull)
                       /\ serialize_output_inner(return_values, vm, "NullableU32", schema,
                                                 schema.cairo_output, preserve_order)
                            = Value(JNull, Tail(return_values))
              ELSE output = Panic("Invalid Nullable")
    /\ \A ty \in {"BoxU32", "BoxPairT"} :
          (DecodedAs(ty) /\ return_values # <<>>) =>
              LET head == return_values[1]
              IN  IF head.rel THEN Dereferenced(head, sierra_program_registry[ty].ty)
                  ELSE output = Panic("Box Pointer is not Relocatable")

\* a Box of a struct of two members was dereferenced to the two cells at 1:4
C25_Witness ==
    /\ DecodedAs("BoxPairT")
    /\ return_values = <<RelocatableValue(1, 4)>>
    /\ vm = VmA
    /\ output = Text(JObject(<<KV("b", JPosInt(<<7>>)), KV("a", JPosInt(<<9>>))>>))

\* the legacy call was made on a document that holds the key "request", under
\* the schema whose root record is {request: ty}
LibDoneOnRequest(ty) ==
    /\ DoneOnDocument
    /\ schema = LibRequestSchema(ty)
    /\ HasKey(json_str.value, "request")

\* the field elements that the arguments hold, in order
ElementsOf(args) ==
    Flatten([i \in 1..Len(args) |->
                IF args[i].kind = "Single" THEN <<args[i].val>> ELSE args[i].vals])

\* the kinds of the arguments, in order
KindsOf(args) == [i \in 1..Len(args) |-> args[i].kind]

\* the arguments of the record's fields, field by field in the map's order
FieldByField(object, name) ==
    LET fields == schema.schemas[name].fields
    IN  Flatten([i \in 1..Len(fields) |->
                    lib_parse_value(ValueOf(object, fields[i].name), fields[i].ty, schema).val])

\* C26: the legacy encoder emits one Single argument for a scalar field, one
\* Array argument for an Array or Span field that holds the elements of the
\* items without a count in front, three arguments for a ByteArray field (the
\* Array of full words, the pending word, the pending length), the arguments
\* of the fields of a Struct field in place of the field; a value that is no
\* object where a record is expected is an error.
C26_LegacyFieldByField ==
    /\ \A p \in PRIMITIVE_NAMES \ {"ByteArray"} :
          (LibDoneOnRequest(Primitive(p)) /\ result.ok) =>
              KindsOf(result.val) = <<"Single">>
    /\ \A ty \in { t \in LibRequestTypes : t.type \in {"Array", "Span"} } :
          (LibDoneOnRequest(ty) /\ result.ok) =>
              /\ KindsOf(result.val) = <<"Array">>
              /\ result.val[1].vals =
                    Flatten([i \in 1..Len(Request.a) |->
                                ElementsOf(lib_parse_value(Request.a[i], ty.item_type,
                                                           schema).val)])
              /\ ty.item_type = Primitive("i32") =>
                    result.val[1].vals =
                        [i \in 1..Len(Request.a) |-> FeltFromI64(as_i64(Request.a[i]).v)]
    /\ (LibDoneOnRequest(Primitive("ByteArray")) /\ result.ok) =>
          LET byte_array == ByteArray_from_string(Request.s).val
          IN  result.val = <<FuncArgArray(byte_array.data),
                             FuncArgSingle(byte_array.pending_word),
                             FuncArgSingle(IntToBytes(byte_array.pending_word_len))>>
    /\ \A name \in {"MyStruct", "Nest"} :
          (LibDoneOnRequest(StructRef(name)) /\ result.ok) =>
              result.val = FieldByField(Request, name)
    /\ \A name \in {"MyStruct", "Nest", "Ghost"} :
          (LibDoneOnRequest(StructRef(name)) /\ Request.t # "Object") =>
              result = Err([msg |-> "Expected object for schema", name |-> name])
    /\ (DoneOnDocument /\ schema \in LibSchemas /\ json_str.value.t # "Object") =>
          result = Err([msg |-> "Expected object for schema", name |-> schema.cairo_input])

\* {"request": {"n": 42, "m": [1, 2, 3], "o": {"y": 42, "z": [1, 2, 3]}}} under
\* a Struct field gave the four arguments of m, n, y and z
C26_Witness ==
    /\ LibDoneOnRequest(StructRef("MyStruct"))
    /\ result = Ok(<<FuncArgArray(<<<<1>>, <<2>>, <<3>>>>), FuncArgSingle(<<42>>),
                     FuncArgSingle(<<42>>), FuncArgArray(<<<<1>>, <<2>>, <<3>>>>)>>)

\* the number of stream elements that the decode of the return type took
Advance ==
    Len(return_values)
    - Len(serialize_output_inner(return_values, vm, return_type_id.v, schema,
                                 schema.cairo_output, preserve_order).rest)

\* C27 as stated: every decode of a value of type T that returns JSON has
\* advanced the stream it was given by exactly type_sizes[T] elements.
C27_Claim_AdvancesByTypeSize ==
    \A ty \in DOMAIN type_sizes :
        (pc = "decoded" /\ return_type_id = Some(ty)) => Advance = type_sizes[ty]

RECURSIVE JsonDepth(_)
\* the nesting depth of a JSON value: 0 for a scalar, one more than its deepest
\* entry for an object or an array
JsonDepth(value) ==
    IF value.t = "Object"
        THEN 1 + Max({ JsonDepth(value.kv[i].v) : i \in 1..Len(value.kv) })
    ELSE IF value.t = "Array"
        THEN 1 + Max({ JsonDepth(value.a[i]) : i \in 1..Len(value.a) })
    ELSE 0

\* the deepest stack of parse_value calls of the encoder's call
CallDepth ==
    IF ~json_str.valid \/ empty_json_exit(json_str.value) THEN 0
    ELSE parse_schema_frames(json_str.value, schema.cairo_input, schema)

DICT_TYPES == {"DictU32", "SquashedU32"}

\* a dictionary type was decoded to a JSON text
DictDecoded(ty) == pc = "decoded" /\ return_type_id = Some(ty) /\ output.t = "text"

\* the offset of the dictionary's first cell in its segment
DictStart(ty) == IF ty = "DictU32" THEN 0 ELSE return_values[1].offset

\* the offset after the dictionary's last cell
DictEnd(ty) == IF ty = "DictU32" THEN return_values[1].offset ELSE return_values[2].offset

\* the cells of the decoded dictionary
DictMem(ty) ==
    IF DictEnd(ty) = DictStart(ty) THEN <<>>
    ELSE SubSeq(vm.segments[return_values[1].segment_index + 1], DictStart(ty) + 1,
                DictEnd(ty))

\* the key text of the dictionary's i-th triplet
TripletKey(ty, i) == MaybeRelocatable_to_string(DictMem(ty)[3 * i - 2])

\* the JSON value decoded from the third slot of the i-th triplet
TripletValue(ty, i) ==
    serialize_output_inner(<<DictMem(ty)[3 * i]>>, vm, sierra_program_registry[ty].ty,
                           schema, schema.cairo_output, preserve_order).v

\* the last triplet that has the key of the i-th one
LastWithKey(ty, i) ==
    Max({ j \in 1..(Len(DictMem(ty)) \div 3) : TripletKey(ty, j) = TripletKey(ty, i) })

\* the memory with the given cell in the middle slot of every triplet
WithMiddleSlots(ty, cell) ==
    LET s == return_values[1].segment_index + 1
    IN  [segments |->
            [k \in 1..Len(vm.segments) |->
                IF k # s THEN vm.segments[k]
                ELSE [o \in 1..Len(vm.segments[s]) |->
                         IF /\ o > DictStart(ty)
                            /\ o <= DictEnd(ty)
                            /\ (o - DictStart(ty)) % 3 = 2
                             THEN cell
                         ELSE vm.segments[s][o]]]]

\* C29: a decoded dictionary whose memory holds several triplets with one key
\* gives an object with exactly one entry for that key, whose value is the one
\* decoded from the last of these triplets; what the middle slot of a triplet
\* holds does not change the output.
C29_DictionaryLastWins ==
    \A ty \in DICT_TYPES :
        DictDecoded(ty) =>
            LET kv == output.json.kv
                n  == Len(DictMem(ty)) \div 3
            IN  /\ output.json.t = "Object"
                /\ \A i \in 1..n :
                      /\ Cardinality({ j \in 1..Len(kv) : kv[j].k = TripletKey(ty, i) }) = 1
                      /\ \A j \in 1..Len(kv) :
                            kv[j].k = TripletKey(ty, i) =>
                                kv[j].v = TripletValue(ty, LastWithKey(ty, i))
                /\ \A j \in 1..Len(kv) : \E i \in 1..n : kv[j].k = TripletKey(ty, i)
                /\ \A cell \in Cells :
                      serialize_output(return_values, WithMiddleSlots(ty, cell),
                                       return_type_id, schema, preserve_order) = output

\* the live dictionary whose memory is (5, 0, 7), (5, 7, 9) was decoded to {"5": 9}
C29_Witness ==
    /\ DictDecoded("DictU32")
    /\ vm = VmA
    /\ return_values = <<RelocatableValue(1, 6)>>
    /\ output = Text(JObject(<<KV("5", JPosInt(<<9>>))>>))

\* the missing-field error for the first declared field of the record
MissingFirstField(name, value) ==
    Err([msg |-> "Missing field", field |-> schema.schemas[name].fields[1].name,
         schema |-> name, value |-> value])

\* an empty object, or a value that is no object
NoRecordValue(value) == value = JObject(<<>>) \/ value.t # "Object"

\* C30: the early exit on the empty object is taken for the whole document
\* only: an empty object that is the value of a Struct field whose record has a
\* field, and a value that is no object where a record with a field is expected
\* (as the document, as a Struct field, as an array item), give the
\* missing-field error of the record's first declared field.
C30_EmptyExitTopLevelOnly ==
    /\ \A name \in {"Nest", "MyStruct", "Node", "Input"} :
          (DoneOnRequest(StructRef(name)) /\ NoRecordValue(Request)) =>
              result = MissingFirstField(name, Request)
    /\ \A ty \in {ArrayOf(StructRef("Nest")), SpanOf(StructRef("Nest"))} :
          (DoneOnRequest(ty) /\ Request.t = "Array" /\ Request.a # <<>>
           /\ NoRecordValue(Request.a[1])) =>
              result = MissingFirstField("Nest", Request.a[1])
    /\ (/\ DoneOnDocument
        /\ json_str.value.t # "Object"
        /\ schema.cairo_input \in DOMAIN schema.schemas
        /\ schema.schemas[schema.cairo_input].fields # <<>>) =>
          result = MissingFirstField(schema.cairo_input, json_str.value)

\* {"request": {}} under the root {request: Nest} was refused for the field y
C30_Witness ==
    /\ DoneOnRequest(StructRef("Nest"))
    /\ json_str.value = JObject(<<KV("request", JObject(<<>>))>>)
    /\ result = Err([msg |-> "Missing field", field |-> "y", schema |-> "Nest",
                     value |-> JObject(<<>>)])

====
